---- MODULE Spec2Model ----
(***************************************************************************)
(* Model of the workout run of src/pages/WorkoutSession.tsx: the phase     *)
(* state machine, its countdown clock, the deferred phase completions, the *)
(* announcement effect and the fire-and-forget cue tasks that play through *)
(* the single-shot playback of src/utils/utils/guidance.ts.                *)
(*                                                                         *)
(* One action is one event-loop task of the page: a user handler, an       *)
(* animation frame, a timer callback or an audio / promise event, together *)
(* with the re-render and the effects React runs for the state it set.     *)
(* Times are in milliseconds.  The two wall-clock references of the page   *)
(* are kept relative to Date.now():                                        *)
(*   sinceLastTime = Date.now() - lastTimeRef.current                      *)
(*   suppressLeft  = max(0, suppressCountdownUntilMsRef.current - now)     *)
(***************************************************************************)
EXTENDS Integers, Sequences, FiniteSets, TLC

VARIABLES
    exercises,          \* the exercises prop (fixed during a run)
    exerciseIndex,      \* useState exerciseIndex
    phase,              \* useState phase
    timeLeftMs,         \* useState timeLeftMs
    totalTimeMs,        \* useState totalTimeMs
    isPaused,           \* useState isPaused
    mounted,            \* the component is mounted (FALSE after leaving or a render error)
    sinceLastTime,      \* Date.now() - lastTimeRef.current
    suppressLeft,       \* time left in the suppression window
    pendingCompletions, \* setTimeout(() => handlePhaseComplete(), 0) callbacks, in timer order
    tasks,              \* async tasks in flight: announcements and cue playbacks
    cueLog,             \* history: the numbered cues fired so far in this phase instance
    catalogue,          \* the exercises argument of the guidance cache: ids and names
    store,              \* the IndexedDB object store of guidance.ts, keyed by key
    calls,              \* getOrGenerate* calls in flight
    returned,           \* how the call that finished last ended
    completed,          \* history: the keys for which a call has returned a payload
    bulk,               \* the Generate handler of the settings page
    preferCloud,        \* VoiceAssistant.preferCloud
    lastCloudError,     \* VoiceAssistant.lastCloudError
    lastEngine,         \* VoiceAssistant.lastEngine
    speaks,             \* the speak calls made on the VoiceAssistant
    schedules,          \* the scheduleRepCount / scheduleCountdown calls of scheduler.ts
    activeSources,      \* activeSources of scheduler.ts, each with its gain node (as a set)
    handled             \* the requests the /api/tts handler has answered

\* the state of the guidance cache
cacheVars == <<catalogue, store, calls, returned, completed, bulk>>

\* the state of the workout page
runVars == <<exercises, exerciseIndex, phase, timeLeftMs, totalTimeMs, isPaused,
             mounted, sinceLastTime, suppressLeft, pendingCompletions, tasks, cueLog>>

\* the state of the fallback speaker, of the pre-scheduling module and of /api/tts
auxVars == <<preferCloud, lastCloudError, lastEngine, speaks, schedules, activeSources,
             handled>>

vars == <<runVars, cacheVars, auxVars>>

\* The state the countdown and the phase machine are made of.
timerVars == <<exerciseIndex, phase, timeLeftMs, totalTimeMs, isPaused, mounted,
               sinceLastTime, suppressLeft, pendingCompletions>>

-----------------------------------------------------------------------------
(* Bounds of the model *)

MaxPending == 2     \* deferred completions in flight
MaxTasks == 2       \* async tasks in flight
MaxStallSteps == 4  \* time steps the clock may run ahead of lastTimeRef
MaxCalls == 2       \* getOrGenerate* calls in flight
MaxStored == 4      \* keys in the store or about to be stored
MaxRenamedKeys == 2 \* the same, while the user renames exercises
MaxSpeaks == 3      \* speak calls made on the VoiceAssistant
MaxSchedules == 2   \* scheduleRepCount / scheduleCountdown calls made
MaxHandled == 1     \* requests the /api/tts handler receives

(* Program constants *)

MsPerSecond == 1000
SuppressWindowMs == 2400
MotPoolSize == 10
MaxNumberToken == 180
PrepMotSecond == 8
CoolMotSecond == 10
CriticalSecond == 3
GetReadyMinPrep == 2

TimeStep == MsPerSecond \div 2

ANNOUNCE == "ANNOUNCE"
PREP == "PREP"
WORK == "WORK"
COOL == "COOL"
FINISHED == "FINISHED"

WorkoutPhase == {ANNOUNCE, PREP, WORK, COOL, FINISHED}
Running == {PREP, WORK, COOL}

Max(a, b) == IF a > b THEN a ELSE b

\* Math.ceil(ms / 1000) for ms >= 0
CeilSec(ms) == (ms + MsPerSecond - 1) \div MsPerSecond

Exercise(i, r, d, p, c) ==
    [id |-> i, reps |-> r, repDuration |-> d, prepTime |-> p, coolingTime |-> c]

ExerciseLists ==
    { << Exercise(1, 2, 1, 1, 0), Exercise(2, 1, 1, 0, 1) >>,
      << Exercise(1, 1, 1, 0, 1), Exercise(2, 0, 1, 0, 0) >>,
      << Exercise(1, 1, 2, 1, 0), Exercise(2, 1, 1, 1, 0), Exercise(3, 0, 0, 0, 0) >> }

Length == Len(exercises)

\* exercises[exerciseIndex] with the 0-based index of the code
ExerciseAt(idx) == exercises[idx + 1]

InRange(idx) == idx >= 0 /\ idx < Length

-----------------------------------------------------------------------------
(* Cue tokens and async tasks *)

Tok(name, k) == [name |-> name, k |-> k]

\* playBlobFit is used for the tick cues and the rep count; playBlob for the rest
UsesFit(tok) == tok.name \in {"n", "go", "get_ready", "mot"}

\* the catch block of the cue task speaks the literal text through tts.speak
HasFallback(tok) == tok.name \in {"n", "go", "rest", "workout_complete", "announce"}

NewTask(tok, stage, active) ==
    [tok |-> tok, stage |-> stage, active |-> active, current |-> FALSE, fading |-> FALSE]

CueTask(tok) == NewTask(tok, "lookup", FALSE)

AnnounceTask(idx) == NewTask(Tok("announce", idx), "timer", TRUE)

RemoveAt(s, i) == SubSeq(s, 1, i - 1) \o SubSeq(s, i + 1, Len(s))

\* cleanup of the announce effect: active = false; clearTimeout(timer)
DeactivateAnnounce(ts) ==
    LET kept == SelectSeq(ts, LAMBDA t : ~(t.active /\ t.stage = "timer"))
    IN  [i \in 1..Len(kept) |-> [kept[i] EXCEPT !.active = FALSE]]

-----------------------------------------------------------------------------
(* Cue selection of the tick updater *)

NoCue == Tok("none", 0)

pickMotToken(seed) == Tok("mot", (seed % MotPoolSize) + 1)

\* a countdown that speaks on every frame instead of on every second boundary
CountdownCueEveryFrame(ph, ex, idx, prev, next, total, suppressed) ==
    IF CeilSec(next) <= 0 THEN NoCue
    ELSE IF ph = PREP /\ CeilSec(next) = 1 THEN Tok("go", 0)
    ELSE Tok("n", CeilSec(next))

\* a countdown branch that speaks the first second a tick has crossed
CountdownCueFirstCrossed(ph, ex, idx, prev, next, total, suppressed) ==
    LET prevSec == CeilSec(prev)
        currSec == CeilSec(next)
        initialSec == CeilSec(total)
        critical == currSec <= CriticalSecond
    IN  IF ~(prevSec > currSec) \/ currSec <= 0 THEN NoCue
        ELSE IF ph = PREP /\ ex.prepTime > GetReadyMinPrep /\ currSec = initialSec
             THEN Tok("get_ready", 0)
        ELSE IF ph = PREP /\ currSec = 1 THEN Tok("go", 0)
        ELSE IF \/ (ph = PREP /\ ex.prepTime >= PrepMotSecond /\ currSec = PrepMotSecond)
                \/ (ph = COOL /\ ex.coolingTime >= CoolMotSecond /\ currSec = CoolMotSecond)
             THEN pickMotToken(idx + currSec)
        ELSE IF ~suppressed \/ critical THEN Tok("n", prevSec - 1)
        ELSE NoCue

\* a countdown branch that speaks the number 1 in PREP as it does in COOL
CountdownCueCountsOne(ph, ex, idx, prev, next, total, suppressed) ==
    LET prevSec == CeilSec(prev)
        currSec == CeilSec(next)
        initialSec == CeilSec(total)
        critical == currSec <= CriticalSecond
    IN  IF ~(prevSec > currSec) \/ currSec <= 0 THEN NoCue
        ELSE IF ph = PREP /\ ex.prepTime > GetReadyMinPrep /\ currSec = initialSec
             THEN Tok("get_ready", 0)
        ELSE IF \/ (ph = PREP /\ ex.prepTime >= PrepMotSecond /\ currSec = PrepMotSecond)
                \/ (ph = COOL /\ ex.coolingTime >= CoolMotSecond /\ currSec = CoolMotSecond)
             THEN pickMotToken(idx + currSec)
        ELSE IF ~suppressed \/ critical THEN Tok("n", currSec)
        ELSE NoCue

\* a countdown branch whose suppression window also silences the last seconds
CountdownCueSilentLast(ph, ex, idx, prev, next, total, suppressed) ==
    LET prevSec == CeilSec(prev)
        currSec == CeilSec(next)
        initialSec == CeilSec(total)
        critical == currSec <= CriticalSecond
    IN  IF ~(prevSec > currSec) \/ currSec <= 0 THEN NoCue
        ELSE IF ph = PREP /\ ex.prepTime > GetReadyMinPrep /\ currSec = initialSec
             THEN Tok("get_ready", 0)
        ELSE IF ph = PREP /\ currSec = 1 THEN Tok("go", 0)
        ELSE IF \/ (ph = PREP /\ ex.prepTime >= PrepMotSecond /\ currSec = PrepMotSecond)
                \/ (ph = COOL /\ ex.coolingTime >= CoolMotSecond /\ currSec = CoolMotSecond)
             THEN pickMotToken(idx + currSec)
        ELSE IF ~suppressed THEN Tok("n", currSec)
        ELSE NoCue

\* PREP/COOL voice countdown: the cue of the tick that takes timeLeftMs from prev to next
CountdownCue(ph, ex, idx, prev, next, total, suppressed) ==
    LET prevSec == CeilSec(prev)
        currSec == CeilSec(next)
        initialSec == CeilSec(total)
        critical == currSec <= CriticalSecond
    IN  IF ~(prevSec > currSec) \/ currSec <= 0 THEN NoCue
        ELSE IF ph = PREP /\ ex.prepTime > GetReadyMinPrep /\ currSec = initialSec
             THEN Tok("get_ready", 0)
        ELSE IF ph = PREP /\ currSec = 1 THEN Tok("go", 0)
        ELSE IF \/ (ph = PREP /\ ex.prepTime >= PrepMotSecond /\ currSec = PrepMotSecond)
                \/ (ph = COOL /\ ex.coolingTime >= CoolMotSecond /\ currSec = CoolMotSecond)
             THEN pickMotToken(idx + currSec)
        ELSE IF ~suppressed \/ critical THEN Tok("n", currSec)
        ELSE NoCue

\* a rep branch that also calls out the count 0
RepCueWithZero(ex, prev, next, total) ==
    IF ex.repDuration > 0
          /\ (total - next) \div (ex.repDuration * MsPerSecond)
               > (total - prev) \div (ex.repDuration * MsPerSecond)
    THEN Tok("n", ex.reps - (total - next) \div (ex.repDuration * MsPerSecond))
    ELSE NoCue

\* WORK voice reps
RepCue(ex, prev, next, total) ==
    LET repDurationMs == ex.repDuration * MsPerSecond
    IN  IF repDurationMs > 0
        THEN LET prevRepIdx == (total - prev) \div repDurationMs
                 currRepIdx == (total - next) \div repDurationMs
                 repsRemaining == ex.reps - currRepIdx
             IN  IF currRepIdx > prevRepIdx /\ repsRemaining > 0
                 THEN Tok("n", repsRemaining) ELSE NoCue
        ELSE NoCue

TickCue(ph, ex, idx, prev, next, total, suppressed) ==
    IF ph = WORK THEN RepCue(ex, prev, next, total)
    ELSE CountdownCue(ph, ex, idx, prev, next, total, suppressed)

\* the second (PREP, COOL) or the remaining-rep count (WORK) a cue is fired for
CueSecond(ph, cue, next) == IF ph = WORK THEN cue.k ELSE CeilSec(next)

\* const next = Math.max(0, prev - delta)
NextTimeLeft(prev, delta) == Max(0, prev - delta)

TickUpdateNoFloor(prev, delta) == prev - delta

\* the value the updater of setTimeLeftMs returns
TickUpdate(prev, delta) ==
    IF NextTimeLeft(prev, delta) <= 0 THEN 0 ELSE NextTimeLeft(prev, delta)

-----------------------------------------------------------------------------
(* Rendering: the effects that follow a commit *)

\* the announce effect, deps [phase, currentExercise, isPaused]
AnnounceEffect(ts, p, idx, paused) ==
    IF p = phase /\ idx = exerciseIndex /\ paused = isPaused THEN ts
    ELSE LET cleaned == DeactivateAnnounce(ts)
         IN  IF p = ANNOUNCE /\ ~paused
             THEN Append(cleaned, AnnounceTask(idx)) ELSE cleaned

\* the tick-loop effect, deps [phase, isPaused, totalTimeMs, currentExercise]:
\* it re-runs and sets lastTimeRef.current = Date.now()
TickEffectAnchors(p, idx, paused, total) ==
    /\ p # phase \/ idx # exerciseIndex \/ paused # isPaused \/ total # totalTimeMs
    /\ ~paused
    /\ p \in Running

\* commit of the state (p, idx, paused, tl, total) on the mounted component
Commit(p, idx, paused, tl, total, ts, since) ==
    /\ phase' = p
    /\ exerciseIndex' = idx
    /\ isPaused' = paused
    /\ timeLeftMs' = tl
    /\ totalTimeMs' = total
    /\ tasks' = AnnounceEffect(ts, p, idx, paused)
    /\ sinceLastTime' = IF TickEffectAnchors(p, idx, paused, total) THEN 0 ELSE since
    /\ UNCHANGED mounted

\* a state setter on an unmounted component does nothing
NoRender(ts, since) ==
    /\ tasks' = ts
    /\ sinceLastTime' = since
    /\ UNCHANGED <<phase, exerciseIndex, isPaused, timeLeftMs, totalTimeMs, mounted>>

-----------------------------------------------------------------------------
(* The handlers *)

PhaseDurationMs(p, ex) ==
    (IF p \in {ANNOUNCE, PREP} THEN ex.prepTime
     ELSE IF p = WORK THEN ex.reps * ex.repDuration
     ELSE IF p = COOL THEN ex.coolingTime
     ELSE 0) * MsPerSecond

EntryCue(p, ex) ==
    IF p = WORK THEN << CueTask(Tok("n", ex.reps)) >>
    ELSE IF p = COOL THEN << CueTask(Tok("rest", 0)) >>
    ELSE << >>

\* the call-out of startPhase(WORK) is the first numbered cue of the phase instance
EntryLog(p, ex) ==
    IF p = WORK THEN << [sec |-> ex.reps, tok |-> Tok("n", ex.reps)] >> ELSE << >>

\* startPhase(newPhase) of the render whose currentExercise is exercises[c]
startPhase(newPhase, c, ts) ==
    LET ex == ExerciseAt(c)
        durationMs == PhaseDurationMs(newPhase, ex)
        ts2 == ts \o EntryCue(newPhase, ex)
    IN  /\ suppressLeft' = 0
        /\ cueLog' = IF mounted THEN EntryLog(newPhase, ex) ELSE cueLog
        /\ IF mounted
           THEN Commit(newPhase, exerciseIndex, isPaused, durationMs, durationMs, ts2, 0)
           ELSE NoRender(ts2, 0)

\* setExerciseIndex(idx) and the exercise-change effect that follows it
setExerciseIndex(idx, ts) ==
    /\ UNCHANGED suppressLeft
    /\ cueLog' = IF ~mounted \/ idx = exerciseIndex THEN cueLog ELSE << >>
    /\ IF ~mounted \/ idx = exerciseIndex THEN NoRender(ts, sinceLastTime)
       ELSE IF ~InRange(idx)
       THEN \* currentExercise is undefined: the render throws and the page unmounts
            /\ exerciseIndex' = idx
            /\ mounted' = FALSE
            /\ tasks' = DeactivateAnnounce(ts)
            /\ UNCHANGED <<phase, isPaused, timeLeftMs, totalTimeMs, sinceLastTime>>
       ELSE LET initialDuration == ExerciseAt(idx).prepTime * MsPerSecond
            IN  Commit(ANNOUNCE, idx, FALSE, initialDuration, initialDuration, ts,
                       IF ~isPaused /\ phase \in Running THEN 0 ELSE sinceLastTime)

\* handleNextExercise of the render whose exerciseIndex is c
handleNextExercise(c, ts) ==
    IF c < Length - 1 THEN setExerciseIndex(exerciseIndex + 1, ts)
    ELSE LET ts2 == Append(ts, CueTask(Tok("workout_complete", 0)))
         IN  /\ UNCHANGED suppressLeft
             /\ cueLog' = IF mounted THEN << >> ELSE cueLog
             /\ IF mounted
                THEN Commit(FINISHED, exerciseIndex, isPaused, timeLeftMs, totalTimeMs,
                            ts2, sinceLastTime)
                ELSE NoRender(ts2, sinceLastTime)

\* coolingTime > 0 of handlePhaseComplete
HasCooling(ex) == ex.coolingTime > 0

\* handlePhaseComplete of the render whose phase is cl.phase and exerciseIndex cl.idx
handlePhaseComplete(cl, ts) ==
    IF cl.phase = PREP THEN startPhase(WORK, cl.idx, ts)
    ELSE IF cl.phase = WORK
    THEN IF HasCooling(ExerciseAt(cl.idx)) THEN startPhase(COOL, cl.idx, ts)
         ELSE handleNextExercise(cl.idx, ts)
    ELSE handleNextExercise(cl.idx, ts)

WithinBounds ==
    /\ Len(tasks') <= MaxTasks
    /\ Len(pendingCompletions') <= MaxPending

-----------------------------------------------------------------------------
(* Initial state: the page has mounted and its effects have run *)

NoResult == [ok |-> FALSE, value |-> 0]

BulkIdle == [active |-> FALSE, cat |-> << >>, todo |-> << >>, done |-> << >>,
             again |-> FALSE]

\* the speaker as constructed, and no schedule call and no request made so far
AuxUnused ==
    /\ preferCloud = TRUE
    /\ lastCloudError = "null"
    /\ lastEngine = "none"
    /\ speaks = << >>
    /\ schedules = << >>
    /\ activeSources = {}
    /\ handled = << >>

\* the cache while the workout page is modelled
CacheUnused ==
    /\ catalogue = << >>
    /\ store = {}
    /\ calls = << >>
    /\ returned = NoResult
    /\ completed = {}
    /\ bulk = BulkIdle

Init ==
    /\ exercises \in ExerciseLists
    /\ exerciseIndex \in 0..(Len(exercises) - 1)
    /\ phase = ANNOUNCE
    /\ isPaused = FALSE
    /\ timeLeftMs = exercises[exerciseIndex + 1].prepTime * MsPerSecond
    /\ totalTimeMs = timeLeftMs
    /\ mounted = TRUE
    /\ sinceLastTime = 0
    /\ suppressLeft = 0
    /\ pendingCompletions = << >>
    /\ tasks = << AnnounceTask(exerciseIndex) >>
    /\ cueLog = << >>
    /\ CacheUnused
    /\ AuxUnused

-----------------------------------------------------------------------------
(* The tick loop and the timers *)

\* one animation frame: loop() and the updater of setTimeLeftMs
Tick ==
    /\ mounted /\ ~isPaused /\ phase \in Running
    /\ LET delta == sinceLastTime
           prev == timeLeftMs
           next == NextTimeLeft(prev, delta)
           cue == TickCue(phase, ExerciseAt(exerciseIndex), exerciseIndex, prev, next,
                          totalTimeMs, suppressLeft > 0)
       IN  /\ timeLeftMs' = TickUpdate(prev, delta)
           /\ sinceLastTime' = 0
           /\ suppressLeft' = IF cue.name = "mot" THEN SuppressWindowMs ELSE suppressLeft
           /\ tasks' = IF cue = NoCue THEN tasks ELSE Append(tasks, CueTask(cue))
           /\ cueLog' = IF cue = NoCue THEN cueLog
                        ELSE Append(cueLog, [sec |-> CueSecond(phase, cue, next), tok |-> cue])
           /\ pendingCompletions' =
                 IF next <= 0
                 THEN Append(pendingCompletions, [phase |-> phase, idx |-> exerciseIndex])
                 ELSE pendingCompletions
    /\ UNCHANGED <<cacheVars, auxVars, exercises, exerciseIndex, phase, totalTimeMs, isPaused, mounted>>
    /\ WithinBounds

\* the oldest setTimeout(() => handlePhaseComplete(), 0) fires
CompletePhase ==
    /\ pendingCompletions # << >>
    /\ handlePhaseComplete(Head(pendingCompletions), tasks)
    /\ pendingCompletions' = Tail(pendingCompletions)
    /\ UNCHANGED <<cacheVars, auxVars, exercises>>
    /\ WithinBounds

\* wall-clock time passes; the zero-delay and 120 ms timers are due within one step
AdvanceTime ==
    /\ mounted
    /\ pendingCompletions = << >>
    /\ \A i \in 1..Len(tasks) : ~tasks[i].fading /\ tasks[i].stage # "timer"
    /\ sinceLastTime + TimeStep <= MaxStallSteps * TimeStep
    /\ sinceLastTime' = sinceLastTime + TimeStep
    /\ suppressLeft' = Max(0, suppressLeft - TimeStep)
    /\ UNCHANGED <<cacheVars, auxVars, exercises, exerciseIndex, phase, timeLeftMs, totalTimeMs, isPaused,
                   mounted, pendingCompletions, tasks, cueLog>>

-----------------------------------------------------------------------------
(* The async tasks: announcement and cue playback *)

OnlyTasks == UNCHANGED <<cacheVars, auxVars, exercises, exerciseIndex, phase, timeLeftMs, totalTimeMs,
                         isPaused, mounted, sinceLastTime, suppressLeft,
                         pendingCompletions, cueLog>>

\* the 120 ms timer of the announce effect fires: getOrGenerateExerciseAnnounce starts
AnnounceTimerFires(i) ==
    /\ tasks[i].stage = "timer"
    /\ pendingCompletions = << >>
    /\ tasks' = [tasks EXCEPT ![i].stage = "lookup"]
    /\ OnlyTasks

\* stopActiveAudio(): the clip that is ACTIVE_AUDIO starts its fade-out
stopActiveAudio(ts) ==
    [j \in 1..Len(ts) |->
        IF ts[j].current THEN [ts[j] EXCEPT !.fading = TRUE] ELSE ts[j]]

\* getOrGenerate resolves with a blob: playBlob / playBlobFit stops the active clip,
\* creates the new one and makes it ACTIVE_AUDIO
LookupResolves(i) ==
    /\ tasks[i].stage = "lookup"
    /\ LET stopped == stopActiveAudio(tasks)
       IN  tasks' = [j \in 1..Len(tasks) |->
                IF j = i
                THEN [tasks[i] EXCEPT !.current = TRUE,
                                      !.stage = IF UsesFit(tasks[i].tok)
                                                THEN "loading" ELSE "playing"]
                ELSE [stopped[j] EXCEPT !.current = FALSE]]
    /\ OnlyTasks

SettleIgnoresActive(i) ==
    IF mounted /\ InRange(exerciseIndex)
    THEN startPhase(PREP, exerciseIndex, RemoveAt(tasks, i))
    ELSE /\ tasks' = RemoveAt(tasks, i)
         /\ UNCHANGED <<exerciseIndex, phase, timeLeftMs, totalTimeMs, isPaused,
                        mounted, sinceLastTime, suppressLeft, cueLog>>

\* the awaited promise of the task settles: the clip is released and the code after
\* the await runs (for the announcement: if (active) startPhase(PREP))
Settle(i) ==
    LET t == tasks[i]
        rest == RemoveAt(tasks, i)
    IN  IF t.active THEN startPhase(PREP, t.tok.k, rest)
        ELSE /\ tasks' = rest
             /\ UNCHANGED <<exerciseIndex, phase, timeLeftMs, totalTimeMs, isPaused,
                            mounted, sinceLastTime, suppressLeft, cueLog>>

\* getOrGenerate rejects (synthesis or store failure): the catch block runs
LookupRejects(i) ==
    /\ tasks[i].stage = "lookup"
    /\ IF HasFallback(tasks[i].tok)
       THEN /\ tasks' = [tasks EXCEPT ![i].stage = "fallback"]
            /\ UNCHANGED <<exerciseIndex, phase, timeLeftMs, totalTimeMs, isPaused,
                           mounted, sinceLastTime, suppressLeft, cueLog>>
       ELSE Settle(i)
    /\ UNCHANGED <<cacheVars, auxVars, exercises, pendingCompletions>>
    /\ WithinBounds

\* playBlobFit: loadedmetadata (or its 600 ms fallback), then a.play()
MetadataLoaded(i) ==
    /\ tasks[i].stage = "loading"
    /\ tasks' = [tasks EXCEPT ![i].stage = "playing"]
    /\ OnlyTasks

\* 'ended' of the clip
ClipEnded(i) ==
    /\ tasks[i].stage = "playing"
    /\ Settle(i)
    /\ UNCHANGED <<cacheVars, auxVars, exercises, pendingCompletions>>
    /\ WithinBounds

\* 'error' of the clip, or a.play() rejects
ClipError(i) ==
    /\ tasks[i].stage \in {"loading", "playing"}
    /\ Settle(i)
    /\ UNCHANGED <<cacheVars, auxVars, exercises, pendingCompletions>>
    /\ WithinBounds

\* the fade-out interval of stopActiveAudio reaches its last step: a.pause().
\* A clip that was playing never fires 'ended' after it: its playBlob never resolves.
FadeEnd(i) ==
    /\ tasks[i].fading
    /\ tasks' = IF tasks[i].stage = "playing" THEN RemoveAt(tasks, i)
                ELSE [tasks EXCEPT ![i].fading = FALSE]
    /\ OnlyTasks

\* tts.speak of the catch block resolves
FallbackDone(i) ==
    /\ tasks[i].stage = "fallback"
    /\ Settle(i)
    /\ UNCHANGED <<cacheVars, auxVars, exercises, pendingCompletions>>
    /\ WithinBounds

-----------------------------------------------------------------------------
(* The user *)

Controls == mounted /\ phase # FINISHED

\* handleTogglePause
TogglePause ==
    /\ Controls
    /\ Commit(phase, exerciseIndex, ~isPaused, timeLeftMs, totalTimeMs, tasks,
              sinceLastTime)
    /\ UNCHANGED <<cacheVars, auxVars, exercises, suppressLeft, pendingCompletions, cueLog>>
    /\ WithinBounds

\* the Next button: handleNextExercise of the current render
NextExercise ==
    /\ Controls
    /\ handleNextExercise(exerciseIndex, tasks)
    /\ UNCHANGED <<cacheVars, auxVars, exercises, pendingCompletions>>
    /\ WithinBounds

\* the Previous button: handlePreviousExercise
PreviousExercise ==
    /\ Controls
    /\ IF exerciseIndex > 0 THEN setExerciseIndex(exerciseIndex - 1, tasks)
       ELSE /\ Commit(ANNOUNCE, exerciseIndex, FALSE, timeLeftMs, totalTimeMs, tasks,
                      sinceLastTime)
            /\ cueLog' = << >>
            /\ UNCHANGED suppressLeft
    /\ UNCHANGED <<cacheVars, auxVars, exercises, pendingCompletions>>
    /\ WithinBounds

\* a picker item: setExerciseIndex(idx)
PickExercise(idx) ==
    /\ Controls
    /\ setExerciseIndex(idx, tasks)
    /\ UNCHANGED <<cacheVars, auxVars, exercises, pendingCompletions>>
    /\ WithinBounds

\* the close / edit / Finish Session buttons: navigate away, the page unmounts
Leave ==
    /\ mounted
    /\ mounted' = FALSE
    /\ tasks' = DeactivateAnnounce(tasks)
    /\ UNCHANGED <<cacheVars, auxVars, exercises, exerciseIndex, phase, timeLeftMs, totalTimeMs, isPaused,
                   sinceLastTime, suppressLeft, pendingCompletions, cueLog>>

-----------------------------------------------------------------------------

TaskIds == 1..Len(tasks)

TaskStep ==
    \/ \E i \in TaskIds : AnnounceTimerFires(i)
    \/ \E i \in TaskIds : LookupResolves(i)
    \/ \E i \in TaskIds : LookupRejects(i)
    \/ \E i \in TaskIds : MetadataLoaded(i)
    \/ \E i \in TaskIds : ClipEnded(i)
    \/ \E i \in TaskIds : ClipError(i)
    \/ \E i \in TaskIds : FadeEnd(i)
    \/ \E i \in TaskIds : FallbackDone(i)

UserStep ==
    \/ TogglePause
    \/ NextExercise
    \/ PreviousExercise
    \/ \E idx \in 0..(Length - 1) : PickExercise(idx)
    \/ Leave

Next ==
    \/ Tick
    \/ CompletePhase
    \/ AdvanceTime
    \/ \E i \in TaskIds : AnnounceTimerFires(i)
    \/ \E i \in TaskIds : LookupResolves(i)
    \/ \E i \in TaskIds : LookupRejects(i)
    \/ \E i \in TaskIds : MetadataLoaded(i)
    \/ \E i \in TaskIds : ClipEnded(i)
    \/ \E i \in TaskIds : ClipError(i)
    \/ \E i \in TaskIds : FadeEnd(i)
    \/ \E i \in TaskIds : FallbackDone(i)
    \/ TogglePause
    \/ NextExercise
    \/ PreviousExercise
    \/ \E idx \in 0..(Length - 1) : PickExercise(idx)
    \/ Leave

Spec == Init /\ [][Next]_vars

-----------------------------------------------------------------------------
(* The same program on a workout whose PREP and COOL are long enough for the voice
   countdown to speak several seconds *)

CountdownLists == { << Exercise(1, 1, 1, 3, 3), Exercise(2, 1, 1, 0, 0) >> }

CountdownInit ==
    /\ exercises \in CountdownLists
    /\ exerciseIndex \in 0..(Len(exercises) - 1)
    /\ phase = ANNOUNCE
    /\ isPaused = FALSE
    /\ timeLeftMs = exercises[exerciseIndex + 1].prepTime * MsPerSecond
    /\ totalTimeMs = timeLeftMs
    /\ mounted = TRUE
    /\ sinceLastTime = 0
    /\ suppressLeft = 0
    /\ pendingCompletions = << >>
    /\ tasks = << AnnounceTask(exerciseIndex) >>
    /\ cueLog = << >>
    /\ CacheUnused
    /\ AuxUnused

CountdownSpec == CountdownInit /\ [][Next]_vars

-----------------------------------------------------------------------------
(* A run the user leaves alone: no pause, no navigation.  Animation frames, timers,
   promise settlements and audio events are scheduled fairly, and a zero-delay timer
   fires before the next animation frame. *)

\* an animation frame that finds no deferred completion waiting
PromptTick ==
    /\ pendingCompletions = << >>
    /\ Tick

AutoNext ==
    \/ PromptTick
    \/ CompletePhase
    \/ AdvanceTime
    \/ \E i \in TaskIds : AnnounceTimerFires(i)
    \/ \E i \in TaskIds : LookupResolves(i)
    \/ \E i \in TaskIds : LookupRejects(i)
    \/ \E i \in TaskIds : MetadataLoaded(i)
    \/ \E i \in TaskIds : ClipEnded(i)
    \/ \E i \in TaskIds : ClipError(i)
    \/ \E i \in TaskIds : FadeEnd(i)
    \/ \E i \in TaskIds : FallbackDone(i)

\* any step of the task in slot i
TaskProgress(i) ==
    /\ i \in TaskIds
    /\ \/ AnnounceTimerFires(i)
       \/ LookupResolves(i)
       \/ LookupRejects(i)
       \/ MetadataLoaded(i)
       \/ ClipEnded(i)
       \/ ClipError(i)
       \/ FadeEnd(i)
       \/ FallbackDone(i)

Fairness ==
    /\ WF_vars(PromptTick)
    /\ WF_vars(CompletePhase)
    /\ WF_vars(AdvanceTime)
    /\ \A i \in 1..MaxTasks : WF_vars(TaskProgress(i))

LiveSpec == Init /\ [][AutoNext]_vars /\ Fairness

-----------------------------------------------------------------------------
(* Properties *)

\* a deferred handlePhaseComplete runs in this step
CompletionStep ==
    /\ pendingCompletions # << >>
    /\ pendingCompletions' = Tail(pendingCompletions)

\* countdown numbers and rep call-outs, the tick cues and the phase-entry cues
RunCues == {"n", "go", "get_ready", "mot", "rest"}

NumCueLookups(ts) ==
    Cardinality({j \in 1..Len(ts) : ts[j].stage = "lookup" /\ ts[j].tok.name \in RunCues})

NumAnnounceTimers(ts) ==
    Cardinality({j \in 1..Len(ts) : ts[j].stage = "timer"})

\* a countdown, rep or phase-entry cue task, or an announcement, is started in this step
CueFired ==
    \/ NumCueLookups(tasks') > NumCueLookups(tasks)
    \/ NumAnnounceTimers(tasks') > NumAnnounceTimers(tasks)

\* C1: in every reachable state of a run, 0 <= timeLeftMs <= totalTimeMs.
ClockWithinTotal == 0 <= timeLeftMs /\ timeLeftMs <= totalTimeMs

\* C1 witness: a countdown that ticks have taken strictly between its ends.
ClockMidPhase ==
    /\ mounted /\ phase \in Running
    /\ 0 < timeLeftMs /\ timeLeftMs < totalTimeMs

\* the transitions of automatic progression
AllowedProgression ==
    \/ phase = ANNOUNCE /\ phase' = PREP /\ exerciseIndex' = exerciseIndex
    \/ phase = PREP /\ phase' = WORK /\ exerciseIndex' = exerciseIndex
    \/ phase = WORK /\ phase' = COOL /\ exerciseIndex' = exerciseIndex
    \/ /\ phase \in {WORK, COOL}
       /\ \/ /\ phase' = ANNOUNCE
             /\ exerciseIndex' = exerciseIndex + 1
             /\ InRange(exerciseIndex + 1)
          \/ /\ phase' = FINISHED
             /\ exerciseIndex' = exerciseIndex
             /\ exerciseIndex = Length - 1

\* C2: a run starts in ANNOUNCE, and every change of phase or exercise made by automatic
\* progression (a deferred phase completion or the end of an announcement) is one of
\* ANNOUNCE->PREP, PREP->WORK, WORK->COOL, WORK/COOL->next ANNOUNCE, or
\* WORK/COOL->FINISHED from the last exercise.
OnlyAllowedProgression ==
    /\ phase = ANNOUNCE
    /\ [][ ((CompletePhase \/ TaskStep)
              /\ <<phase, exerciseIndex>>' # <<phase, exerciseIndex>>)
           => AllowedProgression ]_vars

\* C3: when the completion of WORK of an exercise with coolingTime 0 runs on the open
\* page, the run goes directly to ANNOUNCE of the exercise after it (FINISHED when it is
\* the last one), and no step enters COOL while the current exercise has coolingTime 0.
ZeroCoolingSkipsCool ==
    /\ [][ (mounted /\ CompletionStep
              /\ Head(pendingCompletions).phase = WORK
              /\ ExerciseAt(Head(pendingCompletions).idx).coolingTime = 0)
           => IF Head(pendingCompletions).idx < Length - 1
              THEN /\ phase' = ANNOUNCE
                   /\ exerciseIndex' = Head(pendingCompletions).idx + 1
              ELSE phase' = FINISHED ]_vars
    /\ [][ (phase # COOL /\ phase' = COOL)
           => (InRange(exerciseIndex') /\ ExerciseAt(exerciseIndex').coolingTime > 0) ]_vars

\* C4: once the phase is FINISHED, no later step changes the phase or the exercise index.
FinishedIsTerminal ==
    [][ phase = FINISHED => (phase' = FINISHED /\ exerciseIndex' = exerciseIndex) ]_vars

\* C5: the exercise index always satisfies 0 <= exerciseIndex < exercises.length.
IndexInRange == 0 <= exerciseIndex /\ exerciseIndex < Length

\* C6: while the run is paused timeLeftMs does not change, and on resume the wall-clock
\* reference is re-anchored, so the first tick subtracts only the time since the resume.
PauseFreezesClock ==
    /\ [][ (isPaused /\ isPaused') => timeLeftMs' = timeLeftMs ]_vars
    /\ [][ (isPaused /\ ~isPaused' /\ phase' \in Running) => sinceLastTime' = 0 ]_vars

\* C7: while the run is paused no tick is processed and no cue is fired, and the pause
\* action leaves every clip that is loading or playing as it is.
PausedFiresNothing ==
    /\ [][ (isPaused /\ isPaused') => (~Tick /\ ~CueFired) ]_vars
    /\ [][ (~isPaused /\ isPaused' /\ TogglePause)
           => \A j \in 1..Len(tasks) :
                 tasks[j].stage \in {"loading", "playing"}
                   => \E k \in 1..Len(tasks') :
                         /\ tasks'[k].tok = tasks[j].tok
                         /\ tasks'[k].stage = tasks[j].stage
                         /\ tasks'[k].fading = tasks[j].fading ]_vars

\* C8: in PREP, WORK and COOL no step of a cue task (lookup resolved or rejected, clip
\* loaded, ended, failed or stopped, fallback spoken) changes the countdown or the phase
\* machine, and a tick subtracts exactly the elapsed time whatever tasks are in flight.
CountdownIgnoresCues ==
    /\ [][ (phase \in Running /\ TaskStep) => UNCHANGED timerVars ]_vars
    /\ [][ Tick => /\ timeLeftMs' = Max(0, timeLeftMs - sinceLastTime)
                   /\ <<phase, exerciseIndex, totalTimeMs>>' = <<phase, exerciseIndex, totalTimeMs>>
         ]_vars

\* C8 witness: the countdown has advanced while a cue task has failed over to its
\* fallback and another has not completed its lookup.
CountdownWithCuesInFlight ==
    /\ mounted /\ phase \in Running /\ timeLeftMs < totalTimeMs
    /\ \E j \in 1..Len(tasks) : tasks[j].stage = "fallback"
    /\ \E j \in 1..Len(tasks) : tasks[j].stage = "lookup"

\* C9: a run that is in ANNOUNCE, unpaused and left alone by the user eventually is in
\* PREP of the same exercise.
AnnounceLeadsToPrep ==
    \A i \in 0..2 :
        (mounted /\ phase = ANNOUNCE /\ ~isPaused /\ exerciseIndex = i)
            ~> (phase = PREP /\ exerciseIndex = i)

\* C10: a run that is never paused and never navigated eventually reaches FINISHED.
EventuallyFinished == <>(phase = FINISHED)

-----------------------------------------------------------------------------
(* A run the user leaves alone and that is ticked without stalls: an animation frame
   runs after every step of the clock *)

SteadyLists ==
    { << Exercise(1, 3, 1, 10, 0) >>, << Exercise(1, 2, 2, 1, 0) >>,
      << Exercise(1, 1, 1, PrepMotSecond, CoolMotSecond) >> }

SteadyInit ==
    /\ exercises \in SteadyLists
    /\ exerciseIndex \in 0..(Len(exercises) - 1)
    /\ phase = ANNOUNCE
    /\ isPaused = FALSE
    /\ timeLeftMs = exercises[exerciseIndex + 1].prepTime * MsPerSecond
    /\ totalTimeMs = timeLeftMs
    /\ mounted = TRUE
    /\ sinceLastTime = 0
    /\ suppressLeft = 0
    /\ pendingCompletions = << >>
    /\ tasks = << AnnounceTask(exerciseIndex) >>
    /\ cueLog = << >>
    /\ CacheUnused
    /\ AuxUnused

\* the clock moves one step only when the last frame has seen the step before
SteadyAdvance ==
    /\ sinceLastTime = 0
    /\ AdvanceTime

SteadyNext ==
    \/ PromptTick
    \/ CompletePhase
    \/ SteadyAdvance
    \/ \E i \in TaskIds : AnnounceTimerFires(i)
    \/ \E i \in TaskIds : LookupResolves(i)
    \/ \E i \in TaskIds : LookupRejects(i)
    \/ \E i \in TaskIds : MetadataLoaded(i)
    \/ \E i \in TaskIds : ClipEnded(i)
    \/ \E i \in TaskIds : ClipError(i)
    \/ \E i \in TaskIds : FadeEnd(i)
    \/ \E i \in TaskIds : FallbackDone(i)

SteadySpec == SteadyInit /\ [][SteadyNext]_vars

-----------------------------------------------------------------------------
(* The guidance cache of guidance.ts: keys, the IndexedDB store, getOrGenerate*,
   and the Generate handler of the settings page *)

Names == {"a", "b"}

ExerciseIds == << "e1", "e2", "e3", "e4", "e5" >>

\* the payloads the TTS endpoint may answer with; 0 stands for null
Blobs == {1, 2}

CoreTokens == << "rest" >>

CatalogueOf(names) == [i \in 1..Len(names) |-> [id |-> ExerciseIds[i], name |-> names[i]]]

Catalogues == { CatalogueOf(ns) : ns \in [1..1 -> Names] \cup [1..2 -> Names] }

CoreCue(token) == [kind |-> "core", id |-> token, extra |-> << "token", token >>]

AnnounceCue(ex) == [kind |-> "exercise_announce", id |-> ex.id, extra |-> << >>]

MotivationCue(ex) == [kind |-> "motivation", id |-> ex.id, extra |-> << >>]

JsonExercise(ex) == << "{", "id", ex.id, "name", ex.name, "}" >>

RECURSIVE JsonArray(_)
JsonArray(exs) ==
    IF exs = << >> THEN << >> ELSE JsonExercise(Head(exs)) \o JsonArray(Tail(exs))

\* JSON.stringify({ v: 3, kind, id, exercises, extra }) as its sequence of tokens
Stringify(kind, id, exs, extra) ==
    << "{", "v", "3", "kind", kind, "id", id, "exercises", "[" >>
        \o JsonArray(exs) \o << "]", "extra", "{" >> \o extra \o << "}", "}" >>

\* a digest stands for the one input it was computed from: collisions of SHA-256 are
\* outside the model
sha256(input) == [digest |-> input]

\* a key that is made from the cue alone
guidanceKeyWithoutSequence(exs, extra, kind, id) ==
    << "guidance", kind, id, sha256(Stringify(kind, id, << >>, extra)) >>

guidanceKey(exs, extra, kind, id) ==
    << "guidance", kind, id, sha256(Stringify(kind, id, exs, extra)) >>

KeyOf(cat, cue) == guidanceKey(cat, cue.extra, cue.kind, cue.id)

RECURSIVE PerExerciseCues(_, _)
PerExerciseCues(cat, i) ==
    IF i >= Len(cat) THEN << >>
    ELSE << AnnounceCue(cat[i + 1]) >>
            \o (IF i % 4 = 0 THEN << MotivationCue(cat[i + 1]) >> ELSE << >>)
            \o PerExerciseCues(cat, i + 1)

\* the cues the Generate handler asks for, in its order
GenerateList(cat) ==
    [j \in 1..Len(CoreTokens) |-> CoreCue(CoreTokens[j])] \o PerExerciseCues(cat, 0)

CueSet(cat) == { GenerateList(cat)[j] : j \in 1..Len(GenerateList(cat)) }

KeysOf(cat) == { KeyOf(cat, cue) : cue \in CueSet(cat) }

StoredKeys(st) == { e.key : e \in st }

\* getGuidance: item?.data || null
getGuidance(st, key) ==
    IF key \in StoredKeys(st) THEN (CHOOSE e \in st : e.key = key).data ELSE 0

\* a save that stores nothing
saveGuidanceDropped(st, key, blob, cat) == st

\* saveGuidance: put replaces the entry of the key; cat records the sequence the
\* entry was made for
saveGuidance(st, key, blob, cat) ==
    { e \in st : e.key # key } \cup { [key |-> key, data |-> blob, cat |-> cat] }

NewCall(cue, cat, isBulk) ==
    [cue |-> cue, cat |-> cat, key |-> KeyOf(cat, cue), stage |-> "get", blob |-> 0,
     after |-> KeyOf(cat, cue) \in completed, bulk |-> isBulk]

\* the workout page while the cache is modelled
RunUnused ==
    /\ exercises = << >>
    /\ exerciseIndex = 0
    /\ phase = FINISHED
    /\ isPaused = FALSE
    /\ timeLeftMs = 0
    /\ totalTimeMs = 0
    /\ mounted = FALSE
    /\ sinceLastTime = 0
    /\ suppressLeft = 0
    /\ pendingCompletions = << >>
    /\ tasks = << >>
    /\ cueLog = << >>

\* one sequence of one exercise and one of two
CacheCatalogues == { CatalogueOf(<< "a" >>), CatalogueOf(<< "a", "b" >>) }

CacheInit ==
    /\ catalogue \in CacheCatalogues
    /\ store = {}
    /\ calls = << >>
    /\ returned = NoResult
    /\ completed = {}
    /\ bulk = BulkIdle
    /\ RunUnused
    /\ AuxUnused

CallIds == 1..Len(calls)

\* the keys stored or asked for stay within the bound
RoomFor(keys) ==
    Cardinality(StoredKeys(store) \cup { calls[j].key : j \in CallIds } \cup keys)
        <= MaxStored

\* the Generate handler after its call i has ended: the next await, the end of the
\* loop, or the catch
BulkAfter(i, ok) ==
    IF ~calls[i].bulk THEN bulk
    ELSE IF ~ok THEN [bulk EXCEPT !.active = FALSE, !.todo = << >>]
    ELSE IF Len(bulk.todo) > 1 THEN [bulk EXCEPT !.todo = Tail(bulk.todo)]
    ELSE [bulk EXCEPT !.active = FALSE, !.todo = << >>, !.done = bulk.cat]

\* call i settles: it returns value, or it rejects
Finish(i, ok, value) ==
    /\ returned' = [ok |-> ok, value |-> value]
    /\ completed' = IF ok THEN completed \cup { calls[i].key } ELSE completed
    /\ bulk' = BulkAfter(i, ok)
    /\ calls' = IF calls[i].bulk /\ ok /\ Len(bulk.todo) > 1
                THEN Append(RemoveAt(calls, i), NewCall(bulk.todo[2], bulk.cat, TRUE))
                ELSE RemoveAt(calls, i)

\* a cue task or an announcement calls getOrGenerate*(exercises, cue)
StartCall(cue) ==
    /\ Len(calls) < MaxCalls
    /\ cue \in CueSet(catalogue)
    /\ RoomFor({ KeyOf(catalogue, cue) })
    /\ calls' = Append(calls, NewCall(cue, catalogue, FALSE))
    /\ UNCHANGED <<runVars, auxVars, catalogue, store, returned, completed, bulk>>

\* const existing = await getGuidance(key); if (existing) return existing
DbGetHit(i) ==
    /\ calls[i].stage = "get"
    /\ getGuidance(store, calls[i].key) # 0
    /\ Finish(i, TRUE, getGuidance(store, calls[i].key))
    /\ UNCHANGED <<runVars, auxVars, catalogue, store>>

\* existing is null: the call goes on to ttsFromServer
DbGetMiss(i) ==
    /\ calls[i].stage = "get"
    /\ getGuidance(store, calls[i].key) = 0
    /\ calls' = [calls EXCEPT ![i].stage = "synth"]
    /\ UNCHANGED <<runVars, auxVars, catalogue, store, returned, completed, bulk>>

\* openDb or the get request fails: dbGet rejects, and so does the call
DbGetFails(i) ==
    /\ calls[i].stage = "get"
    /\ Finish(i, FALSE, 0)
    /\ UNCHANGED <<runVars, auxVars, catalogue, store>>

\* the outcomes of fetch('/api/tts'): status 0 stands for a fetch that rejects, audio
\* for a content-type that includes 'audio'; body 3 is a payload that is not audio
Responses ==
    { r \in [status : {0, 200, 500}, audio : BOOLEAN, body : Blobs \cup {3}] :
        (r.status = 200 /\ r.audio) <=> r.body \in Blobs }

\* a ttsFromServer that does not look at the content-type
ttsFromServerAnyType(res) ==
    IF res.status \notin 200..299 THEN NoResult
    ELSE [ok |-> TRUE, value |-> res.body]

\* ttsFromServer: throws unless res.ok and the content-type is audio
ttsFromServer(res) ==
    IF res.status \notin 200..299 THEN NoResult
    ELSE IF ~res.audio THEN NoResult
    ELSE [ok |-> TRUE, value |-> res.body]

\* const blob = await ttsFromServer(text)
SynthDone(i, b) ==
    /\ calls[i].stage = "synth"
    /\ \E res \in Responses : ttsFromServer(res) = [ok |-> TRUE, value |-> b]
    /\ calls' = [calls EXCEPT ![i].stage = "put", ![i].blob = b]
    /\ UNCHANGED <<runVars, auxVars, catalogue, store, returned, completed, bulk>>

\* ttsFromServer throws: the response is not ok or not audio
SynthFails(i) ==
    /\ calls[i].stage = "synth"
    /\ \E res \in Responses : ~ttsFromServer(res).ok
    /\ Finish(i, FALSE, 0)
    /\ UNCHANGED <<runVars, auxVars, catalogue, store>>

\* await saveGuidance(key, blob); return blob
DbPutDone(i) ==
    /\ calls[i].stage = "put"
    /\ store' = saveGuidance(store, calls[i].key, calls[i].blob, calls[i].cat)
    /\ Finish(i, TRUE, calls[i].blob)
    /\ UNCHANGED <<runVars, auxVars, catalogue>>

\* openDb or the readwrite transaction fails: dbPut rejects, and so does the call
DbPutFails(i) ==
    /\ calls[i].stage = "put"
    /\ Finish(i, FALSE, 0)
    /\ UNCHANGED <<runVars, auxVars, catalogue, store>>

\* the user saves exercise pos under another name
Rename(pos, name) ==
    /\ pos \in 1..Len(catalogue)
    /\ name # catalogue[pos].name
    /\ catalogue' = [catalogue EXCEPT ![pos].name = name]
    /\ UNCHANGED <<runVars, auxVars, store, calls, returned, completed, bulk>>

\* the user presses Generate
StartBulk ==
    /\ ~bulk.active
    /\ Len(calls) < MaxCalls
    /\ RoomFor(KeysOf(catalogue))
    /\ bulk' = [active |-> TRUE, cat |-> catalogue, todo |-> GenerateList(catalogue),
                done |-> bulk.done, again |-> bulk.done = catalogue]
    /\ calls' = Append(calls, NewCall(Head(GenerateList(catalogue)), catalogue, TRUE))
    /\ UNCHANGED <<runVars, auxVars, catalogue, store, returned, completed>>

\* the cache under one exercise sequence: calls of the run, Generate, failing I/O
CacheNext ==
    \/ \E cue \in CueSet(catalogue) : StartCall(cue)
    \/ \E i \in CallIds : DbGetHit(i)
    \/ \E i \in CallIds : DbGetMiss(i)
    \/ \E i \in CallIds : DbGetFails(i)
    \/ \E i \in CallIds : \E res \in Responses : SynthDone(i, res.body)
    \/ \E i \in CallIds : SynthFails(i)
    \/ \E i \in CallIds : DbPutDone(i)
    \/ \E i \in CallIds : DbPutFails(i)
    \/ StartBulk

CacheSpec == CacheInit /\ [][CacheNext]_vars

RenameInit ==
    /\ catalogue \in Catalogues
    /\ store = {}
    /\ calls = << >>
    /\ returned = NoResult
    /\ completed = {}
    /\ bulk = BulkIdle
    /\ RunUnused
    /\ AuxUnused

\* one call at a time
StartLoneCall(cue) ==
    /\ calls = << >>
    /\ Cardinality(StoredKeys(store) \cup { KeyOf(catalogue, cue) }) <= MaxRenamedKeys
    /\ StartCall(cue)

\* the cache while the user renames exercises: one call at a time, working I/O
RenameNext ==
    \/ \E cue \in CueSet(catalogue) : StartLoneCall(cue)
    \/ \E i \in CallIds : DbGetHit(i)
    \/ \E i \in CallIds : DbGetMiss(i)
    \/ \E i \in CallIds : \E b \in Blobs : SynthDone(i, b)
    \/ \E i \in CallIds : DbPutDone(i)
    \/ \E pos \in 1..Len(catalogue) : \E name \in Names : Rename(pos, name)

RenameSpec == RenameInit /\ [][RenameNext]_vars

-----------------------------------------------------------------------------
(* getCacheStatus of guidance.ts *)

\* a counter that counts every stored key, expected or not
CountCachedAll(expected, existing) == Cardinality(existing)

\* for (const k of expected) if (existing.has(k)) cached++
CountCached(expected, existing) ==
    Cardinality({ j \in 1..Len(expected) : expected[j] \in existing })

StatusNamedTokens ==
    << "get_ready", "rest", "workout_complete", "prep_motivation", "prep_motivation_2",
       "cool_motivation" >>
        \o [i \in 1..5 |-> "go_" \o ToString(i)]
        \o [i \in 1..MotPoolSize |-> "mot_" \o ToString(i)]

StatusCoreTokens ==
    [n \in 1..MaxNumberToken |-> "n:" \o ToString(n)] \o StatusNamedTokens

\* the keys getCacheStatus expects, in its order
ExpectedKeys(cat) ==
    LET cues == [j \in 1..Len(StatusCoreTokens) |-> CoreCue(StatusCoreTokens[j])]
                    \o PerExerciseCues(cat, 0)
    IN  [j \in 1..Len(cues) |-> KeyOf(cat, cues[j])]

getCacheStatus(cat, st) ==
    LET expected == ExpectedKeys(cat)
        cached == CountCached(expected, StoredKeys(st))
        total == Len(expected)
    IN  [cached |-> cached, total |-> total, missing |-> Max(0, total - cached)]

\* a Generate handler that asks for one go clip
GenerateCoreTokensOneGo ==
    [n \in 1..MaxNumberToken |-> "n:" \o ToString(n)]
        \o << "prep_motivation", "prep_motivation_2", "cool_motivation" >>
        \o [i \in 1..MotPoolSize |-> "mot_" \o ToString(i)]
        \o << "get_ready", "go", "rest", "workout_complete" >>

\* the core tokens the Generate handler asks for, in its order
GenerateCoreTokens ==
    [n \in 1..MaxNumberToken |-> "n:" \o ToString(n)]
        \o << "prep_motivation", "prep_motivation_2", "cool_motivation" >>
        \o [i \in 1..MotPoolSize |-> "mot_" \o ToString(i)]
        \o << "get_ready" >>
        \o [i \in 1..5 |-> "go_" \o ToString(i)]
        \o << "rest", "workout_complete" >>

\* the token string a cue task of the run passes to getOrGenerateCore
CoreTokenOf(tok) ==
    IF tok.name = "n" THEN "n:" \o ToString(tok.k)
    ELSE IF tok.name = "mot" THEN "mot_" \o ToString(tok.k)
    ELSE tok.name

\* sequences of no, one and five exercises
StatusCatalogues ==
    { CatalogueOf(<< >>), CatalogueOf(<< "a" >>),
      CatalogueOf(<< "a", "a", "a", "a", "a" >>) }

StatusInit ==
    /\ catalogue \in StatusCatalogues
    /\ store = {}
    /\ calls = << >>
    /\ returned = NoResult
    /\ completed = {}
    /\ bulk = BulkIdle
    /\ RunUnused
    /\ AuxUnused

\* the user saves the first exercise under another name
RenameFirst(name) == Rename(1, name)

\* the cache as the settings page finds it: filled by calls, with renames in between
StatusNext ==
    \/ \E cue \in CueSet(catalogue) : StartLoneCall(cue)
    \/ \E i \in CallIds : DbGetHit(i)
    \/ \E i \in CallIds : DbGetMiss(i)
    \/ \E i \in CallIds : \E b \in Blobs : SynthDone(i, b)
    \/ \E i \in CallIds : DbPutDone(i)
    \/ \E name \in Names : RenameFirst(name)

StatusSpec == StatusInit /\ [][StatusNext]_vars

\* the Generate button on a fresh cache: the handler starts on its whole list of cues
StartGenerate ==
    LET list == [j \in 1..Len(GenerateCoreTokens) |-> CoreCue(GenerateCoreTokens[j])]
                    \o PerExerciseCues(catalogue, 0)
    IN  /\ bulk = BulkIdle
        /\ calls = << >>
        /\ bulk' = [active |-> TRUE, cat |-> catalogue, todo |-> list,
                    done |-> bulk.done, again |-> FALSE]
        /\ calls' = << NewCall(Head(list), catalogue, TRUE) >>
        /\ UNCHANGED <<runVars, auxVars, catalogue, store, returned, completed>>

\* one Generate run over all its cues, with synthesis and store writes that may fail;
\* every synthesized clip is the same payload
GenerateNext ==
    \/ StartGenerate
    \/ \E i \in CallIds : DbGetMiss(i)
    \/ \E i \in CallIds : SynthDone(i, 1)
    \/ \E i \in CallIds : SynthFails(i)
    \/ \E i \in CallIds : DbPutDone(i)
    \/ \E i \in CallIds : DbPutFails(i)

GenerateSpec == StatusInit /\ [][GenerateNext]_vars

-----------------------------------------------------------------------------
(* The fallback speaker: VoiceAssistant of src/unnamed/part_001.  A speak call is
   kept in speaks with the stage it waits in: "delay" (the 10 ms pause of a forced
   call), "preload" and "play" (the awaits of tryCloudSpeak before the clip plays),
   "wait" (the clip plays: ended or error is awaited), "native" (the utterance
   is spoken) and "done".  Every call speaks a text of its own, so every call has its
   own cached Audio element.  stopped: cancel() has paused the element.  The fields
   tried, failed and spoke are history: a cloud attempt was made, it failed, the text
   was handed to nativeSpeak. *)

SpeakIds == 1..Len(speaks)

\* speak after the forced delay: the cloud attempt when cloud is preferred (the
\* start of tryCloudSpeak, up to await preload), the native fallback otherwise
StartSpeaking(i, sp) ==
    IF preferCloud
    THEN /\ lastCloudError' = "null"
         /\ speaks' = [sp EXCEPT ![i].stage = "preload", ![i].tried = TRUE]
         /\ UNCHANGED lastEngine
    ELSE /\ lastEngine' = "native"
         /\ speaks' = [sp EXCEPT ![i].stage = "native", ![i].spoke = TRUE]
         /\ UNCHANGED lastCloudError

\* setVoice({ preferCloud })
setVoice(p) ==
    /\ preferCloud' = p
    /\ UNCHANGED <<runVars, cacheVars, lastCloudError, lastEngine, speaks, schedules,
                   activeSources, handled>>

\* speak(text, force) with a text that is not blank; with force it runs cancel():
\* the utterances in flight are cancelled and every cached clip is paused
speak(force) ==
    /\ Len(speaks) < MaxSpeaks
    /\ LET call == [stage |-> "delay", stopped |-> FALSE, tried |-> FALSE,
                    failed |-> FALSE, spoke |-> FALSE]
           cancelled == [j \in SpeakIds |->
                            IF speaks[j].stage \in {"play", "wait"}
                            THEN [speaks[j] EXCEPT !.stopped = TRUE] ELSE speaks[j]]
       IN  IF force
           THEN /\ speaks' = Append(cancelled, call)
                /\ UNCHANGED <<lastCloudError, lastEngine>>
           ELSE StartSpeaking(Len(speaks) + 1, Append(speaks, call))
    /\ UNCHANGED <<runVars, cacheVars, preferCloud, schedules, activeSources, handled>>

\* the 10 ms timer of a forced call fires
DelayDone(i) ==
    /\ speaks[i].stage = "delay"
    /\ StartSpeaking(i, speaks)
    /\ UNCHANGED <<runVars, cacheVars, preferCloud, schedules, activeSources, handled>>

\* await this.preload(safe) returns: the clip is rewound and audio.play() is called
PreloadDone(i) ==
    /\ speaks[i].stage = "preload"
    /\ speaks' = [speaks EXCEPT ![i].stage = "play", ![i].stopped = FALSE]
    /\ UNCHANGED <<runVars, cacheVars, preferCloud, lastCloudError, lastEngine, schedules,
                   activeSources, handled>>

\* await audio.play() settles: the clip plays, or play() rejects and the catch block
\* returns false, after which speak falls back to nativeSpeak.  A play() whose clip
\* was paused meanwhile rejects.
PlaySettles(i, ok) ==
    /\ speaks[i].stage = "play"
    /\ speaks[i].stopped => ~ok
    /\ IF ok
       THEN /\ speaks' = [speaks EXCEPT ![i].stage = "wait"]
            /\ UNCHANGED <<lastCloudError, lastEngine>>
       ELSE /\ lastCloudError' = "play_failed"
            /\ lastEngine' = "native"
            /\ speaks' = [speaks EXCEPT ![i].stage = "native", ![i].failed = TRUE,
                                        ![i].spoke = TRUE]
    /\ UNCHANGED <<runVars, cacheVars, preferCloud, schedules, activeSources, handled>>

\* a tryCloudSpeak that reports success whatever the clip did
AudioSettlesAsSuccess(i, ended) ==
    /\ speaks[i].stage = "wait"
    /\ ~speaks[i].stopped
    /\ lastCloudError' = IF ended THEN lastCloudError ELSE "audio_error"
    /\ lastEngine' = "cloud"
    /\ speaks' = [speaks EXCEPT ![i].stage = "done", ![i].failed = ~ended]
    /\ UNCHANGED <<runVars, cacheVars, preferCloud, schedules, activeSources, handled>>

\* 'ended' or 'error' of the clip, and the return of tryCloudSpeak that follows in the
\* same task: return this.lastCloudError === null.  A paused clip fires neither.
AudioSettles(i, ended) ==
    /\ speaks[i].stage = "wait"
    /\ ~speaks[i].stopped
    /\ lastCloudError' = IF ended THEN lastCloudError ELSE "audio_error"
    /\ IF lastCloudError' = "null"
       THEN /\ lastEngine' = "cloud"
            /\ speaks' = [speaks EXCEPT ![i].stage = "done"]
       ELSE /\ lastEngine' = "native"
            /\ speaks' = [speaks EXCEPT ![i].stage = "native", ![i].failed = ~ended,
                                        ![i].spoke = TRUE]
    /\ UNCHANGED <<runVars, cacheVars, preferCloud, schedules, activeSources, handled>>

\* onend or onerror of the utterance: nativeSpeak resolves, and so does speak
UtteranceDone(i) ==
    /\ speaks[i].stage = "native"
    /\ speaks' = [speaks EXCEPT ![i].stage = "done"]
    /\ UNCHANGED <<runVars, cacheVars, preferCloud, lastCloudError, lastEngine, schedules,
                   activeSources, handled>>

VoiceNext ==
    \/ \E p \in BOOLEAN : setVoice(p)
    \/ \E force \in BOOLEAN : speak(force)
    \/ \E i \in SpeakIds : DelayDone(i)
    \/ \E i \in SpeakIds : PreloadDone(i)
    \/ \E i \in SpeakIds : \E ok \in BOOLEAN : PlaySettles(i, ok)
    \/ \E i \in SpeakIds : \E ended \in BOOLEAN : AudioSettles(i, ended)
    \/ \E i \in SpeakIds : UtteranceDone(i)

\* nothing has been called yet
AuxInit == RunUnused /\ CacheUnused /\ AuxUnused

VoiceSpec == AuxInit /\ [][VoiceNext]_vars

-----------------------------------------------------------------------------
(* The pre-scheduling module src/utils/scheduler.ts.  A call is kept in schedules:
   kind "countdown" or "reps", n the seconds or the reps, t the value of the loop
   variable whose buffer is awaited (for reps the remaining count), stage "unlock"
   (await ensureAudioUnlocked), "buffer" (await getBuffer), "done" or "failed".
   cues is history: what the call has handed to scheduleBuffer, with the offset of
   `when` from the call's start in seconds (in rep durations for reps).  superseded is
   history: a later call or the page has run stopScheduledAudio since the call began. *)

\* a loop body that goes back to the numbers one second early
countdownTokenShortMot(seconds, ph, seed, t) ==
    LET longMode == seconds >= 10
        motStart == 8
        motLenSec == 3
        pickMot == Tok("mot", ((seed + t) % 10) + 1)
    IN  IF ph = "prep" /\ t = 1 THEN Tok("go", (seed % 5) + 1)
        ELSE IF t <= 3 THEN Tok("n", t)
        ELSE IF longMode /\ (t = 10 \/ t = 9) THEN Tok("n", t)
        ELSE IF longMode
        THEN IF t = motStart THEN pickMot
             ELSE IF t < motStart /\ t >= motStart - (motLenSec - 1) THEN NoCue
             ELSE Tok("n", t)
        ELSE IF seconds >= 6 THEN (IF t % 2 = 0 THEN Tok("n", t) ELSE pickMot)
        ELSE Tok("n", t)

\* the loop body of scheduleCountdown for second t: the token whose buffer it
\* schedules (go_k and mot_k with their k), or none
countdownToken(seconds, ph, seed, t) ==
    LET longMode == seconds >= 10
        motStart == 8
        motLenSec == 4
        pickMot == Tok("mot", ((seed + t) % 10) + 1)
    IN  IF ph = "prep" /\ t = 1 THEN Tok("go", (seed % 5) + 1)
        ELSE IF t <= 3 THEN Tok("n", t)
        ELSE IF longMode /\ (t = 10 \/ t = 9) THEN Tok("n", t)
        ELSE IF longMode
        THEN IF t = motStart THEN pickMot
             ELSE IF t < motStart /\ t >= motStart - (motLenSec - 1) THEN NoCue
             ELSE Tok("n", t)
        ELSE IF seconds >= 6 THEN (IF t % 2 = 0 THEN Tok("n", t) ELSE pickMot)
        ELSE Tok("n", t)

\* the loop of call c runs on from the value `below` of its variable to the next
\* await getBuffer, or to its end
Advance(c, below) ==
    LET due == { u \in 1..below :
                   c.kind = "reps" \/ countdownToken(c.n, c.ph, c.seed, u) # NoCue }
    IN  IF due = {} THEN [c EXCEPT !.stage = "done", !.t = 0]
        ELSE [c EXCEPT !.stage = "buffer",
                       !.t = CHOOSE u \in due : \A v \in due : v <= u]

\* scheduleRepCount(exercises, n, repDurationSec) / scheduleCountdown(exercises, n,
\* ph, seed) is called: it awaits ensureAudioUnlocked
StartSchedule(kind, n, ph, seed) ==
    /\ Len(schedules) < MaxSchedules
    /\ schedules' = Append(schedules,
                           [kind |-> kind, n |-> n, ph |-> ph, seed |-> seed, t |-> n,
                            stage |-> "unlock", cues |-> << >>, superseded |-> FALSE])
    /\ UNCHANGED <<runVars, cacheVars, preferCloud, lastCloudError, lastEngine, speaks,
                   activeSources, handled>>

\* ensureAudioUnlocked returns: stopScheduledAudio(), start = currentTime + 0.05, and
\* the loop up to its first await
Unlocked(i) ==
    /\ schedules[i].stage = "unlock"
    /\ activeSources' = {}
    /\ schedules' = [j \in 1..Len(schedules) |->
                        IF j = i
                        THEN Advance([schedules[i] EXCEPT !.superseded = FALSE],
                                     schedules[i].n)
                        ELSE [schedules[j] EXCEPT !.superseded = TRUE]]
    /\ UNCHANGED <<runVars, cacheVars, preferCloud, lastCloudError, lastEngine, speaks,
                   handled>>

\* await getBuffer settles: scheduleBuffer(buf, when) starts a source and pushes it
\* on activeSources, and the loop runs on; or getBuffer rejects and so does the call
BufferSettles(i, ok) ==
    /\ schedules[i].stage = "buffer"
    /\ LET c == schedules[i]
           tok == IF c.kind = "reps" THEN Tok("n", c.t)
                  ELSE countdownToken(c.n, c.ph, c.seed, c.t)
           cue == [t |-> c.t, tok |-> tok, at |-> c.n - c.t]
       IN  IF ok
           THEN /\ activeSources' = activeSources \cup { [call |-> i, t |-> c.t] }
                /\ schedules' = [schedules EXCEPT
                                    ![i] = Advance([c EXCEPT !.cues = Append(c.cues, cue)],
                                                   c.t - 1)]
           ELSE /\ schedules' = [schedules EXCEPT ![i].stage = "failed"]
                /\ UNCHANGED activeSources
    /\ UNCHANGED <<runVars, cacheVars, preferCloud, lastCloudError, lastEngine, speaks,
                   handled>>

\* the page calls stopScheduledAudio()
stopScheduledAudio ==
    /\ activeSources' = {}
    /\ schedules' = [j \in 1..Len(schedules) |-> [schedules[j] EXCEPT !.superseded = TRUE]]
    /\ UNCHANGED <<runVars, cacheVars, preferCloud, lastCloudError, lastEngine, speaks,
                   handled>>

SchedNext ==
    \/ StartSchedule("reps", 2, "work", 0)
    \/ \E n \in {3, 10, 11} : \E ph \in {"prep", "cool"} :
          StartSchedule("countdown", n, ph, 3)
    \/ \E i \in 1..Len(schedules) : Unlocked(i)
    \/ \E i \in 1..Len(schedules) : \E ok \in BOOLEAN : BufferSettles(i, ok)
    \/ stopScheduledAudio

SchedSpec == AuxInit /\ [][SchedNext]_vars

-----------------------------------------------------------------------------
(* The /api/tts handler (functions/api/tts.ts). A text is the sequence of its UTF-16
   code units; a request is answered in one step when the key or the text is missing,
   and otherwise when the upstream request settles *)

TextLimit == 600
TextKeep == 597

\* a handler that cuts at the limit and then appends the ellipsis
safeTextCutAtLimit(text) ==
    IF Len(text) > TextLimit THEN SubSeq(text, 1, TextLimit) \o <<46, 46, 46>> ELSE text

\* safeText = text.length > 600 ? text.slice(0, 597) + '...' : text
safeText(text) ==
    IF Len(text) > TextLimit THEN SubSeq(text, 1, TextKeep) \o <<46, 46, 46>> ELSE text

\* onRequestPost up to its first response or to `await fetch(url, ...)`; a body that
\* is not JSON or has no text gives the empty text
onRequestPost(apiKey, text) ==
    /\ Len(handled) < MaxHandled
    /\ LET blank == \A k \in 1..Len(text) : text[k] \in {9, 10, 32}
           req == [apiKey |-> apiKey, text |-> text, sent |-> << >>, stage |-> "done",
                   up |-> [thrown |-> FALSE, status |-> 0, audio |-> FALSE,
                           readable |-> FALSE],
                   res |-> [status |-> 0, json |-> FALSE, audio |-> FALSE]]
       IN  handled' = Append(handled,
               IF ~apiKey
               THEN [req EXCEPT !.res = [status |-> 500, json |-> TRUE, audio |-> FALSE]]
               ELSE IF blank
               THEN [req EXCEPT !.res = [status |-> 400, json |-> TRUE, audio |-> FALSE]]
               ELSE [req EXCEPT !.stage = "upstream", !.sent = << safeText(text) >>])
    /\ UNCHANGED <<runVars, cacheVars, preferCloud, lastCloudError, lastEngine, speaks,
                   schedules, activeSources>>

\* a handler that passes every upstream 2xx body on as audio
UpstreamSettlesAnyType(i, up) ==
    /\ handled[i].stage = "upstream"
    /\ handled' = [handled EXCEPT ![i].stage = "done", ![i].up = up, ![i].res =
          IF up.thrown THEN [status |-> 500, json |-> TRUE, audio |-> FALSE]
          ELSE IF up.status \notin 200..299
          THEN [status |-> up.status, json |-> TRUE, audio |-> FALSE]
          ELSE IF ~up.readable THEN [status |-> 500, json |-> TRUE, audio |-> FALSE]
          ELSE [status |-> 200, json |-> FALSE, audio |-> TRUE]]
    /\ UNCHANGED <<runVars, cacheVars, preferCloud, lastCloudError, lastEngine, speaks,
                   schedules, activeSources>>

\* fetch settles and the handler runs to its response: fetch throws, or the upstream
\* response is not ok, or not audio, or its body cannot be read, or it is passed on
UpstreamSettles(i, up) ==
    /\ handled[i].stage = "upstream"
    /\ handled' = [handled EXCEPT ![i].stage = "done", ![i].up = up, ![i].res =
          IF up.thrown THEN [status |-> 500, json |-> TRUE, audio |-> FALSE]
          ELSE IF up.status \notin 200..299
          THEN [status |-> up.status, json |-> TRUE, audio |-> FALSE]
          ELSE IF ~up.audio THEN [status |-> 502, json |-> TRUE, audio |-> FALSE]
          ELSE IF ~up.readable THEN [status |-> 500, json |-> TRUE, audio |-> FALSE]
          ELSE [status |-> 200, json |-> FALSE, audio |-> TRUE]]
    /\ UNCHANGED <<runVars, cacheVars, preferCloud, lastCloudError, lastEngine, speaks,
                   schedules, activeSources>>

\* requests: texts of the lengths around the limit, of letters, of spaces, and of
\* spaces that end in a letter; upstream outcomes: a throw, or a response
ApiNext ==
    \/ \E apiKey \in BOOLEAN : \E len \in {0, 1, TextKeep, TextLimit, TextLimit + 1,
                                            TextLimit + 3} :
       \E fill \in {"letters", "spaces", "padded"} :
          onRequestPost(apiKey,
                        [k \in 1..len |-> IF fill = "spaces" \/ (fill = "padded" /\ k < len)
                                          THEN 32 ELSE 97 + (k % 7)])
    \/ \E i \in 1..Len(handled) :
       \E up \in [thrown : BOOLEAN, status : {200, 401, 500}, audio : BOOLEAN,
                  readable : BOOLEAN] :
          /\ up.thrown => (up.status = 500 /\ ~up.audio /\ ~up.readable)
          /\ UpstreamSettles(i, up)

ApiSpec == AuxInit /\ [][ApiNext]_vars

-----------------------------------------------------------------------------
\* the numbers of the logged cues: each is at least 1 and smaller than the one before
StrictlyDecreasing(log) ==
    \A i \in 1..Len(log) :
        /\ log[i].sec >= 1
        /\ i > 1 => log[i].sec < log[i - 1].sec

\* C11: within one PREP or COOL phase instance the seconds for which the tick loop
\* fires a countdown cue are positive and strictly decreasing: no second is cued
\* twice, and no cue is fired for second 0.
CountdownSecondsDecrease ==
    (mounted /\ phase \in {PREP, COOL}) => StrictlyDecreasing(cueLog)

\* a PREP or COOL phase in which two seconds have been cued
TwoSecondsCued == mounted /\ phase \in {PREP, COOL} /\ Len(cueLog) >= 2

\* the whole rep boundaries passed at the elapsed time of the WORK phase
RepsElapsed ==
    (totalTimeMs - timeLeftMs) \div (ExerciseAt(exerciseIndex).repDuration * MsPerSecond)

\* the number of call-outs due so far: one per boundary k = 0..N-1 reached
CallOutsDue ==
    IF RepsElapsed < ExerciseAt(exerciseIndex).reps
    THEN RepsElapsed + 1 ELSE ExerciseAt(exerciseIndex).reps

GetReadyForInitialSecond ==
    (mounted /\ phase = PREP /\ ExerciseAt(exerciseIndex).prepTime > GetReadyMinPrep
       /\ cueLog # << >>)
    => /\ cueLog[1].tok = Tok("get_ready", 0)
       /\ cueLog[1].sec = CeilSec(totalTimeMs)

\* C14: in a PREP phase of 10 s ticked without stalls, second 8 is cued with a
\* motivational line and nothing is cued for the seconds 7, 6 and 5.
MotivationSilencesThreeSeconds ==
    (mounted /\ phase = PREP /\ ExerciseAt(exerciseIndex).prepTime >= PrepMotSecond)
    => /\ CeilSec(timeLeftMs) <= PrepMotSecond
             => \E k \in 1..Len(cueLog) :
                   cueLog[k].sec = PrepMotSecond /\ cueLog[k].tok.name = "mot"
       /\ \A k \in 1..Len(cueLog) :
             cueLog[k].sec \notin (PrepMotSecond - 3)..(PrepMotSecond - 1)

\* an announcement of exercise idx whose completion will start PREP is in flight
AnnouncementInFlight(ts, idx) ==
    \E j \in 1..Len(ts) : ts[j].tok = Tok("announce", idx) /\ ts[j].active

\* the step of pressing Previous while the first exercise is shown
PreviousAtFirst == exerciseIndex = 0 /\ PreviousExercise

\* the step in which the announcement ends and PREP starts
PrepStarts == phase = ANNOUNCE /\ phase' = PREP

\* the tasks that pressing Previous on the first exercise leaves in flight: the press
\* commits (ANNOUNCE, 0, unpaused) and the announce effect follows the commit
TasksAfterPreviousAtFirst == AnnounceEffect(tasks, ANNOUNCE, exerciseIndex, FALSE)

\* C15: pressing Previous at exerciseIndex = 0, from whichever phase, leaves the index
\* at 0 and restarts the exercise from ANNOUNCE, unpaused: after the press its name is
\* being announced, and the PREP that follows starts with the full prep time.
PreviousAtFirstRestarts ==
    /\ []( (Controls /\ exerciseIndex = 0)
            => AnnouncementInFlight(TasksAfterPreviousAtFirst, 0) )
    /\ [][ PreviousAtFirst
           => /\ exerciseIndex' = 0
              /\ phase' = ANNOUNCE
              /\ ~isPaused'
              /\ AnnouncementInFlight(tasks', 0) ]_vars
    /\ [][ PrepStarts
           => /\ timeLeftMs' = ExerciseAt(exerciseIndex').prepTime * MsPerSecond
              /\ totalTimeMs' = timeLeftMs' ]_vars

\* the phase and the pause flag after setExerciseIndex(idx) of the picker: a set to the
\* value the state already has re-renders nothing and the exercise-change effect does
\* not run
PickedPhase(idx) == IF idx = exerciseIndex THEN phase ELSE ANNOUNCE

PickedPaused(idx) == IF idx = exerciseIndex THEN isPaused ELSE FALSE

\* a guidance clip is audible
ClipPlaying(ts) == \E j \in 1..Len(ts) : ts[j].stage = "playing" /\ ~ts[j].fading

\* C16: selecting any exercise index in the picker, the index of the running exercise
\* included, puts the run in ANNOUNCE of the selected exercise, unpaused, and no speech
\* that was in flight is still playing.
PickerRestartsAtAnnounce ==
    /\ []( Controls
            => \A idx \in 0..(Length - 1) :
                  PickedPhase(idx) = ANNOUNCE /\ ~PickedPaused(idx) )
    /\ [][ \A idx \in 0..(Length - 1) :
             PickExercise(idx)
             => /\ exerciseIndex' = idx
                /\ phase' = ANNOUNCE
                /\ ~isPaused'
                /\ ~ClipPlaying(tasks') ]_vars

\* C17: once the page of the run is gone, no tick is processed (the clock and the
\* deferred completions stay as they are under frames) and all audio is stopped: no
\* clip is playing, whether it played at the time of leaving or was started afterwards
\* by a cue task that was in flight.
LeavingStopsTicksAndAudio ==
    /\ [][ ~mounted => timeLeftMs' = timeLeftMs ]_vars
    /\ []( ~mounted => ~ClipPlaying(tasks) )

\* call i was made after a call for its key had returned a payload, or by a Generate
\* run that repeats a finished run on the same sequence
LaterCall(i) == calls[i].after \/ (calls[i].bulk /\ bulk.again)

\* C18: once a getOrGenerate call has returned for a sequence and a cue, a later call
\* for the same sequence and cue never reaches synthesis or a write of the store, and it
\* returns the payload that is stored, leaving the store as it is; so do all the calls
\* of a second Generate run on the same sequence.  (A later call whose read of the store
\* fails is the subject of C20.)
LaterCallsHitTheCache ==
    /\ [](\A i \in CallIds : LaterCall(i) => calls[i].stage = "get")
    /\ [][ \A i \in CallIds :
             (LaterCall(i) /\ DbGetHit(i))
             => /\ returned'.ok
                /\ returned'.value = getGuidance(store, calls[i].key)
                /\ returned'.value \in Blobs
                /\ store' = store ]_vars

\* a second Generate run on the same sequence has reached its last cue
SecondGenerateAtLastCue ==
    /\ bulk.active /\ bulk.again /\ Len(bulk.todo) = 1
    /\ \E i \in CallIds : calls[i].bulk /\ calls[i].after

\* two sequences of the same exercises of which at least one has another name
DiffersInName(c1, c2) ==
    /\ Len(c1) = Len(c2)
    /\ \E k \in 1..Len(c1) : c1[k].name # c2[k].name

\* C19: the key of an entry is the key guidanceKey gives for the sequence and the cue
\* it was made for, whenever it is computed; and an entry made for a sequence that
\* differs from the present one in an exercise's name has the key of no cue (core
\* token, announcement, motivation) of the present sequence, so it is a hit for none.
RenamedSequenceMissesOldEntries ==
    \A e \in store :
        /\ e.key \in KeysOf(e.cat)
        /\ DiffersInName(e.cat, catalogue)
              => \A cue \in CueSet(catalogue) :
                    /\ KeyOf(catalogue, cue) # e.key
                    /\ KeyOf(catalogue, cue) \notin KeysOf(e.cat)

\* an entry made under the old name is in the store, and one made under the new name
EntriesOfOldAndNewName ==
    /\ \E e \in store : DiffersInName(e.cat, catalogue)
    /\ \E e \in store : e.cat = catalogue

\* C20: a failure of the store during getOrGenerate is treated as a cache miss: when
\* the read of the key fails the call goes on to synthesis, and when the write of the
\* new entry fails the call still returns the payload it has synthesized.
StoreFailureIsAMiss ==
    /\ [][ \A i \in CallIds :
             DbGetFails(i)
             => /\ Len(calls') = Len(calls)
                /\ calls'[i].stage = "synth" ]_vars
    /\ [][ \A i \in CallIds :
             DbPutFails(i)
             => /\ returned'.ok
                /\ returned'.value = calls[i].blob ]_vars

\* C21: for every cue the run requests, when getOrGenerate fails the cue's text is
\* spoken through the fallback speaker: the task of the failed lookup goes on to
\* tts.speak, it is not dropped.
FailedLookupFallsBack ==
    [][ \A i \in TaskIds :
          LookupRejects(i)
          => /\ Len(tasks') = Len(tasks)
             /\ tasks'[i].tok = tasks[i].tok
             /\ tasks'[i].stage = "fallback" ]_vars

\* the expected keys that are in the store
ExpectedPresent ==
    LET expected == ExpectedKeys(catalogue)
    IN  { k \in StoredKeys(store) : \E j \in 1..Len(expected) : expected[j] = k }

\* C22: for a list of n exercises getCacheStatus returns total = 180 + the number of
\* named core tokens + n + ceil(n/4), cached = the number of expected keys that are in
\* the store, and missing = total - cached; with an empty store cached = 0 and
\* missing = total.
CacheStatusCounts ==
    LET status == getCacheStatus(catalogue, store)
        n == Len(catalogue)
    IN  /\ status.total = MaxNumberToken + Len(StatusNamedTokens) + n + (n + 3) \div 4
        /\ status.cached = Cardinality(ExpectedPresent)
        /\ status.missing = status.total - status.cached
        /\ store = {} => (status.cached = 0 /\ status.missing = status.total)

\* five exercises, one expected key cached and one entry left from the old name
FiveExercisesOneCachedOneStale ==
    /\ Len(catalogue) = 5
    /\ Cardinality(ExpectedPresent) = 1
    /\ Cardinality(StoredKeys(store)) = 2

\* C23: every core token a cue task of the run asks getOrGenerateCore for, with counts
\* and seconds in 1..180, is one of the tokens that Generate populates and
\* getCacheStatus expects; for one exercise sequence the key is made of the token, so
\* after a successful Generate these requests are cache hits.
RunTokensArePopulated ==
    LET populated == { GenerateCoreTokens[j] : j \in 1..Len(GenerateCoreTokens) }
                         \cap { StatusCoreTokens[j] : j \in 1..Len(StatusCoreTokens) }
    IN \A i \in TaskIds :
           (/\ tasks[i].tok.name \in RunCues \cup {"workout_complete"}
            /\ tasks[i].tok.name = "n" => tasks[i].tok.k \in 1..MaxNumberToken)
           => CoreTokenOf(tasks[i].tok) \in populated


\* C24: a deferred completion acts once per phase instance: whenever one runs, it is the
\* completion of the phase and exercise on screen, whose clock is at 0, and it raises
\* exerciseIndex by at most 1; no completion is left over from a phase instance that a
\* second tick, Next, Previous or the picker has already replaced.
CompletionOncePerPhase ==
    [][ CompletionStep
          => /\ Head(pendingCompletions).phase = phase
             /\ Head(pendingCompletions).idx = exerciseIndex
             /\ timeLeftMs = 0
             /\ exerciseIndex' \in {exerciseIndex, exerciseIndex + 1} ]_vars


\* C25: a step that enters PREP, WORK or COOL sets the total and the remaining time to
\* 1000 times prepTime, reps*repDuration or coolingTime of the current exercise; while
\* the phase is ANNOUNCE both equal 1000*prepTime of the current exercise, and the
\* remaining time does not decrease during an announcement.
TimerSetOnEntry ==
    /\ [](phase = ANNOUNCE
            => /\ totalTimeMs = PhaseDurationMs(ANNOUNCE, ExerciseAt(exerciseIndex))
               /\ timeLeftMs = totalTimeMs)
    /\ [][ /\ (phase' \in Running /\ phase' # phase)
              => /\ totalTimeMs' = PhaseDurationMs(phase', ExerciseAt(exerciseIndex'))
                 /\ timeLeftMs' = totalTimeMs'
           /\ (phase = ANNOUNCE /\ phase' = ANNOUNCE /\ exerciseIndex' = exerciseIndex)
              => timeLeftMs' >= timeLeftMs ]_vars


\* C26: with frames that keep up with the clock, once the PREP countdown of an exercise
\* with prepTime >= 8 (8 included) is past second 8, and once the COOL countdown of an
\* exercise with coolingTime >= 10 (10 included) is past second 10, the tick of that
\* second has played mot_k with k = ((exerciseIndex + second) mod 10) + 1, which is in
\* 1..10; and the tick that plays it opens a suppression window of 2400 ms.
MotivationAtEightAndTen ==
    /\ [](/\ (/\ phase = PREP
              /\ ExerciseAt(exerciseIndex).prepTime >= PrepMotSecond
              /\ CeilSec(timeLeftMs) < PrepMotSecond)
             => \E j \in 1..Len(cueLog) :
                    cueLog[j] = [sec |-> PrepMotSecond,
                                 tok |-> Tok("mot", ((exerciseIndex + PrepMotSecond) % 10) + 1)]
          /\ (/\ phase = COOL
              /\ ExerciseAt(exerciseIndex).coolingTime >= CoolMotSecond
              /\ CeilSec(timeLeftMs) < CoolMotSecond)
             => \E j \in 1..Len(cueLog) :
                    cueLog[j] = [sec |-> CoolMotSecond,
                                 tok |-> Tok("mot", ((exerciseIndex + CoolMotSecond) % 10) + 1)]
          /\ \A j \in 1..Len(cueLog) : cueLog[j].tok.name = "mot" => cueLog[j].tok.k \in 1..10)
    /\ [][ (/\ Len(cueLog') = Len(cueLog) + 1
            /\ cueLog'[Len(cueLog')].tok.name = "mot")
           => suppressLeft' = SuppressWindowMs ]_vars


\* C27: a tick of PREP or COOL that lands on a second s with 1 <= s <= 3 fires a cue for
\* s, and the countdown branch selects a cue for such a second with the suppression
\* window open as well as closed; a tick that lands on a second s >= 1 and fires no cue
\* has an open suppression window and s > 3.
LastSecondsAlwaysCued ==
    /\ [](phase \in {PREP, COOL}
            => \A s \in 1..CriticalSecond, suppressed \in BOOLEAN :
                   s * MsPerSecond < totalTimeMs
                   => CountdownCue(phase, ExerciseAt(exerciseIndex), exerciseIndex,
                                   s * MsPerSecond + TimeStep, s * MsPerSecond,
                                   totalTimeMs, suppressed) # NoCue)
    /\ [][ (/\ Tick
            /\ phase \in {PREP, COOL}
            /\ CeilSec(timeLeftMs) > CeilSec(timeLeftMs')
            /\ CeilSec(timeLeftMs') >= 1)
           => /\ CeilSec(timeLeftMs') <= CriticalSecond
                 => /\ Len(cueLog') = Len(cueLog) + 1
                    /\ cueLog'[Len(cueLog')].sec = CeilSec(timeLeftMs')
              /\ cueLog' = cueLog
                 => (suppressLeft > 0 /\ CeilSec(timeLeftMs') > CriticalSecond) ]_vars

\* after a motivational cue the second 7 was skipped and the second 3 has its cue
SkippedSevenCuedThree ==
    /\ phase = PREP
    /\ \E j \in 1..Len(cueLog) : cueLog[j].tok.name = "mot"
    /\ \E j \in 1..Len(cueLog) : cueLog[j].sec = CriticalSecond
    /\ ~ \E j \in 1..Len(cueLog) : cueLog[j].sec = 7


\* C28: a PREP tick that lands on second 1 fires the go cue and no number 1; a COOL tick
\* that lands on second 1 fires the number 1.
GoReplacesOneInPrep ==
    [][ (/\ Tick
         /\ phase \in {PREP, COOL}
         /\ CeilSec(timeLeftMs) > 1
         /\ CeilSec(timeLeftMs') = 1)
        => /\ Len(tasks') = Len(tasks) + 1
           /\ Len(cueLog') = Len(cueLog) + 1
           /\ tasks'[Len(tasks')].tok = cueLog'[Len(cueLog')].tok
           /\ cueLog'[Len(cueLog')] =
                 [sec |-> 1, tok |-> IF phase = PREP THEN Tok("go", 0) ELSE Tok("n", 1)] ]_vars

\* go was fired in a PREP and, in the COOL of the same run, the number 1
WentAndCountedOne ==
    /\ phase = COOL
    /\ \E j \in 1..Len(cueLog) : cueLog[j] = [sec |-> 1, tok |-> Tok("n", 1)]
    /\ \E i \in TaskIds : tasks[i].tok = Tok("go", 0)


\* C29: a tick of PREP or COOL starts at most one cue, and the cue it starts is the one
\* of the second ceil(remaining/1000) after the update, also when the tick has crossed
\* several whole seconds; the seconds it jumped over get no cue in that tick or later:
\* every cue of the phase instance is for a second not below the current one, and a
\* spoken number is the second it was fired for.
OneCueForTheLandingSecond ==
    /\ [](phase \in {PREP, COOL}
            => \A j \in 1..Len(cueLog) :
                   /\ cueLog[j].sec >= CeilSec(timeLeftMs)
                   /\ cueLog[j].tok.name = "n" => cueLog[j].tok.k = cueLog[j].sec
                   /\ cueLog[j].tok.name = "go" => cueLog[j].sec = 1)
    /\ [][ (Tick /\ phase \in {PREP, COOL})
           => /\ Len(tasks') <= Len(tasks) + 1
              /\ Len(cueLog') <= Len(cueLog) + 1
              /\ Len(tasks') = Len(tasks) + 1 <=> Len(cueLog') = Len(cueLog) + 1
              /\ Len(cueLog') = Len(cueLog) + 1
                 => /\ cueLog'[Len(cueLog')].sec = CeilSec(timeLeftMs')
                    /\ tasks'[Len(tasks')].tok = cueLog'[Len(cueLog')].tok ]_vars

\* one tick of COOL went from the third second to the first and spoke only the 1
JumpedOverTwo ==
    /\ phase = COOL
    /\ totalTimeMs > 2 * MsPerSecond
    /\ timeLeftMs > 0
    /\ cueLog = << [sec |-> 1, tok |-> Tok("n", 1)] >>


\* C30: the clips of the cues of one phase instance start in the order the ticks fired
\* them: when the lookup of a cue resolves and its clip becomes the active one, no cue
\* fired after it in the same phase instance has started its clip already.
CuesStartInFiringOrder ==
    [][ \A i \in TaskIds :
          LookupResolves(i)
          => \A j \in TaskIds :
                (/\ j > i
                 /\ tasks[i].tok # tasks[j].tok
                 /\ \E a \in 1..Len(cueLog) : cueLog[a].tok = tasks[i].tok
                 /\ \E b \in 1..Len(cueLog) : cueLog[b].tok = tasks[j].tok)
                => tasks[j].stage = "lookup" ]_vars


\* C31: apart from a clip that is fading out, at most one single-shot clip plays at a
\* time, and a playing clip that is not fading is the active clip: a clip that was
\* replaced as the active clip does not start or go on playing.
OneClipAtATime ==
    /\ Cardinality({ j \in 1..Len(tasks) : tasks[j].stage = "playing" /\ ~tasks[j].fading }) <= 1
    /\ \A j \in 1..Len(tasks) :
           (tasks[j].stage = "playing" /\ ~tasks[j].fading) => tasks[j].current


\* C32: a playBlob call whose clip has started resolves in the end, whether the clip
\* ends, fails or is stopped by a later playback call: the announcement that awaits it
\* and is still the active one then goes on to start PREP.
StartedClipResolves ==
    (\E i \in TaskIds : /\ tasks[i].tok.name = "announce"
                        /\ tasks[i].active
                        /\ tasks[i].stage = "playing")
        ~> (phase = PREP)


GenerateFillsTheCache ==
    (/\ ~bulk.active /\ calls = << >> /\ returned.ok /\ bulk.cat = catalogue)
    => LET status == getCacheStatus(catalogue, store)
       IN  /\ status.missing = 0
           /\ status.cached = status.total
           /\ status.total > 0

\* the Generate run on five exercises has finished
GeneratedForFive ==
    /\ ~bulk.active /\ calls = << >> /\ returned.ok /\ bulk.cat = catalogue
    /\ Len(catalogue) = 5


\* C35: a speak call makes a cloud attempt exactly when cloud is preferred at the moment
\* it starts speaking, and then before any on-device speech; a call whose cloud attempt
\* has failed (play() rejected, or the clip fired 'error') has handed its text to
\* on-device synthesis, whatever other speak calls are in flight; no call ends in a
\* rejection.
SpeakFallsBackToNative ==
    /\ [](\A i \in SpeakIds :
            /\ speaks[i].failed => (speaks[i].tried /\ speaks[i].spoke)
            /\ speaks[i].stage \in {"delay", "preload", "play", "wait", "native", "done"})
    /\ [][ \A i \in 1..Len(speaks') :
             /\ (speaks'[i].tried /\ (i > Len(speaks) \/ ~speaks[i].tried)) => preferCloud
             /\ (speaks'[i].spoke /\ ~speaks'[i].tried /\ (i > Len(speaks) \/ ~speaks[i].spoke))
                => ~preferCloud ]_vars

\* the cloud clip of one call has failed and its text is spoken on the device while
\* the clip of another call is playing
FellBackWhileAnotherPlays ==
    \E i, j \in SpeakIds :
        /\ i # j
        /\ speaks[i].failed /\ speaks[i].stage = "native"
        /\ speaks[j].stage = "wait" /\ ~speaks[j].stopped


\* C36: a scheduleCountdown call with seconds >= 10 that has run to its end has
\* scheduled exactly one cue for every t in 1..seconds other than 7, 6 and 5, and none
\* for these: a motivational line at t = 8, a go cue at t = 1 in phase prep, the number
\* t at every other t; the cue for t is scheduled seconds - t after the start, and a
\* call still in its loop has scheduled nothing else.
LongCountdownPlan ==
    \A i \in 1..Len(schedules) :
        LET c == schedules[i]
            cuesFor(t) == { j \in 1..Len(c.cues) : c.cues[j].t = t }
        IN  (c.kind = "countdown" /\ c.n >= 10)
            => /\ \A j \in 1..Len(c.cues) :
                     /\ c.cues[j].t \in (1..c.n) \ {5, 6, 7}
                     /\ c.cues[j].at = c.n - c.cues[j].t
                     /\ c.cues[j].tok.name =
                           (IF c.cues[j].t = 8 THEN "mot"
                            ELSE IF c.ph = "prep" /\ c.cues[j].t = 1 THEN "go"
                            ELSE "n")
                     /\ c.cues[j].tok.name = "n" => c.cues[j].tok.k = c.cues[j].t
                     /\ c.cues[j].tok.name = "mot" => c.cues[j].tok.k \in 1..10
               /\ \A t \in 1..c.n : Cardinality(cuesFor(t)) <= 1
               /\ c.stage = "done"
                  => \A t \in (1..c.n) \ {5, 6, 7} : Cardinality(cuesFor(t)) = 1

\* a countdown of more than 10 seconds in phase prep has been scheduled to its end
LongPrepCountdownScheduled ==
    \E i \in 1..Len(schedules) :
        /\ schedules[i].kind = "countdown" /\ schedules[i].ph = "prep"
        /\ schedules[i].n > 10 /\ schedules[i].stage = "done"
        /\ Len(schedules[i].cues) = schedules[i].n - 3


\* C37: for the same phase and duration the two strategies agree second by second: in a
\* PREP or COOL countdown ticked without stalls, every cue the tick loop has fired for a
\* second is of the kind (go, motivational line, number) scheduleCountdown schedules for
\* that second, and every second the tick loop has passed without a cue is a second
\* scheduleCountdown schedules nothing for.
TickCuesMatchSchedule ==
    (mounted /\ phase \in {PREP, COOL})
    => LET n == totalTimeMs \div MsPerSecond
           ph == IF phase = PREP THEN "prep" ELSE "cool"
           cued == { cueLog[j].sec : j \in 1..Len(cueLog) }
       IN  /\ \A j \in 1..Len(cueLog) :
                  cueLog[j].tok.name
                      = countdownToken(n, ph, exerciseIndex, cueLog[j].sec).name
           /\ \A s \in (CeilSec(timeLeftMs) + 1)..n :
                  s \notin cued => countdownToken(n, ph, exerciseIndex, s) = NoCue


\* C38: a scheduled sequence does not overlap an older one: a schedule call that a newer
\* call or stopScheduledAudio has superseded schedules no further cue, even when it was
\* awaiting an audio buffer at that moment, so no active source belongs to a superseded
\* call; and a step of stopScheduledAudio leaves the list of active sources (and with
\* it the list of gain nodes) empty.
OlderScheduleIsSilenced ==
    [][ /\ \A i \in 1..Len(schedules) :
              schedules[i].superseded => schedules'[i].cues = schedules[i].cues
        /\ \A src \in activeSources' : ~schedules'[src.call].superseded
        /\ stopScheduledAudio => activeSources' = {} ]_vars


\* C39: an answered /api/tts request has status 200 with an audio content-type only when
\* the key is set, the text is not blank and upstream answered 2xx with an audio
\* content-type; every other answer is a JSON error: 500 without key, 400 with a missing
\* or blank text, the upstream status when upstream is not 2xx, 502 when upstream is 2xx
\* but not audio, 500 on an exception; and a request without key or without text is
\* never sent upstream.
TtsHandlerStatuses ==
    \A i \in 1..Len(handled) :
        LET h == handled[i]
            blank == \A k \in 1..Len(h.text) : h.text[k] \in {9, 10, 32}
            asked == h.apiKey /\ ~blank
            ok2xx == ~h.up.thrown /\ h.up.status >= 200 /\ h.up.status < 300
        IN  /\ ~asked => (h.sent = << >> /\ h.stage = "done")
            /\ asked => Len(h.sent) = 1
            /\ h.stage = "done"
               => /\ (h.res.status = 200 /\ h.res.audio)
                     => (asked /\ ok2xx /\ h.up.audio)
                  /\ h.res.audio => (h.res.status = 200 /\ ~h.res.json)
                  /\ ~h.res.audio => h.res.json
                  /\ ~h.apiKey => h.res.status = 500
                  /\ (h.apiKey /\ blank) => h.res.status = 400
                  /\ (asked /\ h.up.thrown) => h.res.status = 500
                  /\ (asked /\ ~h.up.thrown /\ ~ok2xx) => h.res.status = h.up.status
                  /\ (asked /\ ok2xx /\ ~h.up.audio) => h.res.status = 502
                  /\ (asked /\ ok2xx /\ h.up.audio)
                     => \/ h.res.status = 200 /\ h.res.audio
                        \/ ~h.up.readable /\ h.res.status = 500

\* upstream answered a request with key and text with a 2xx that is not audio, and
\* the handler has answered 502
AnsweredBadGateway ==
    \E i \in 1..Len(handled) :
        /\ handled[i].stage = "done" /\ handled[i].apiKey /\ Len(handled[i].sent) = 1
        /\ handled[i].up.status = 200 /\ ~handled[i].up.thrown /\ ~handled[i].up.audio
        /\ handled[i].res.status = 502

\* C40: the text the handler submits upstream is the request text itself when that has
\* at most 600 code units, and otherwise its first 597 code units followed by three
\* full stops; it is never longer than 600.
SubmittedTextIsCapped ==
    \A i \in 1..Len(handled) : \A j \in 1..Len(handled[i].sent) :
        LET text == handled[i].text
            sent == handled[i].sent[j]
        IN  /\ Len(sent) <= 600
            /\ Len(text) <= 600 => sent = text
            /\ Len(text) > 600
               => /\ Len(sent) = 600
                  /\ \A k \in 1..597 : sent[k] = text[k]
                  /\ \A k \in 598..600 : sent[k] = 46

\* a text of more than 600 code units has been submitted upstream
LongTextSubmitted ==
    \E i \in 1..Len(handled) :
        /\ Len(handled[i].text) > 600
        /\ Len(handled[i].sent) = 1
        /\ Len(handled[i].sent[1]) = 600

====
